---- MODULE Spec2Model ----
(***************************************************************************)
(* Model of the Mimir build engine: the target graph (src/src/dag.cpp) and *)
(* the executor with its single-threaded and multi-threaded strategies     *)
(* (src/src/executor.cpp).                                                 *)
(***************************************************************************)
EXTENDS Integers, Sequences, FiniteSets, Bags, TLC

(***************************************************************************)
(* Bounds                                                                  *)
(***************************************************************************)
MaxDagTargets == 3   \* target names available to the graph queries
MaxDeps == 2         \* longest dependency list of a target in the graph queries
MaxTargets == 3      \* targets of an executed DAG
MaxWorkers == 2      \* largest worker count J

NameList == <<"A", "B", "C", "D", "E", "F">>
Ghost == "ghost"     \* a dependency name that is never registered

DagNames == {NameList[i] : i \in 1..MaxDagTargets}
AllNames == {NameList[i] : i \in 1..Len(NameList)} \cup {Ghost}

SeqsUpTo(S, n) == UNION {[1..k -> S] : k \in 0..n}
Range(s) == {s[i] : i \in 1..Len(s)}
Front(s) == SubSeq(s, 1, Len(s) - 1)
\* the iteration orders an unordered_map with key set S can have
Perms(S) == {p \in [1..Cardinality(S) -> S] : \A i, j \in 1..Cardinality(S) : i # j => p[i] # p[j]}
\* std::find: the first position of x in s, Len(s) + 1 (end) when x is not in s
FirstIndex(s, x) ==
    IF \E i \in 1..Len(s) : s[i] = x
    THEN CHOOSE i \in 1..Len(s) : s[i] = x /\ \A j \in 1..(i - 1) : s[j] # x
    ELSE Len(s) + 1

VARIABLES
    targets_,      \* DAG::targets_ : name -> Target (its dependency list)
    dagOp,         \* the graph query called last
    dagRet         \* what that query returned

dagVars == <<targets_, dagOp, dagRet>>

VARIABLES
    config_,       \* ExecutorConfig: numThreads, stopOnError, dryRun
    cancelled_,    \* Executor::cancelled_
    cache,         \* Cache::signatures_ : name -> signature, NoEntry when absent
    call,          \* the executor entry point called: "none", "execute", "executeTarget"
    order,         \* the topological order execute works on
    pc,            \* per thread (0 = the caller, 1..J = the workers): where it is
    targetName,    \* per thread: the target it is processing ("" = none)
    curIdx,        \* executeSingleThreaded: `current`, the position in order being processed
    completed,     \* executeMultiThreaded: completed[name]
    inProgress,    \* executeMultiThreaded: inProgress[name]
    failed,        \* executeMultiThreaded: the failed latch
    processedCount,\* executeMultiThreaded: processedCount
    stats,         \* BuildStats: totalTargets, builtTargets, skippedTargets, failedTargets
    events,        \* the status events emitted so far: <<channel, target, status>>
    retval,        \* the value the entry point returned, once pc[Caller] = "done"
    runnerCalls,   \* targets whose command was handed to the command runner
    cmdFailed,     \* targets whose command the runner reported as failed
    cacheAtStart,  \* per target: its cache entry when its processing began
    written,       \* targets whose cache entry the executor wrote (Cache::setSignature)
    sawCancel      \* some thread stopped because it read cancelled_ = true

VARIABLES
    files,         \* the files the executor reads: input contents, presence of the outputs
    runs,          \* the executions made so far on this cache, and what the earlier ones reported
    cacheFile,     \* the text of <cacheDir>/cache.txt, NoFile while it does not exist
    mutex_,        \* Cache::mutex_ : its exclusive owner and its shared owners
    client,        \* per client thread of the Cache: the call it is in
    cacheOp,       \* the Cache operation called last
    cacheRet,      \* what that operation returned
    history,       \* of the client threads' writes: the (name, signature) pairs handed to
                   \* setSignature, and per name the kind of the write that took effect last
    sigOp,         \* the Signature function called last, or "write" after a file was rewritten
    sigRet         \* the calls of Signature::computeTargetSignature made so far, with results

sigVars == <<sigOp, sigRet>>
storeVars == <<cacheFile, mutex_, client, cacheOp, cacheRet, history, sigVars>>

execVars == <<config_, cancelled_, cache, call, order, pc, targetName, curIdx, completed,
              inProgress, failed, processedCount, stats, events, retval, runnerCalls,
              cmdFailed, cacheAtStart, written, sawCancel, files, runs, cacheFile, mutex_,
              client, cacheOp, cacheRet, history, sigVars>>

vars == <<targets_, dagOp, dagRet, config_, cancelled_, cache, call, order, pc, targetName,
          curIdx, completed, inProgress, failed, processedCount, stats, events, retval,
          runnerCalls, cmdFailed, cacheAtStart, written, sawCancel, files, runs, cacheFile,
          mutex_, client, cacheOp, cacheRet, history, sigVars>>

(***************************************************************************)
(* Target and DAG                                                          *)
(***************************************************************************)
Target(deps) == [dependencies |-> deps]
getDependencies(T, name) == T[name].dependencies
hasTarget(T, name) == name \in DOMAIN T
size(T) == Cardinality(DOMAIN T)

\* ---- DAG::topologicalSort ----
\* the in-degrees are never counted: every target is queued at once
InitialInDegree_NotCounted(T) == [n \in DOMAIN T |-> 0]

\* in-degree of a target: one per entry of its dependency list
InitialInDegree(T) == [n \in DOMAIN T |-> Len(getDependencies(T, n))]

\* the dependents of `current`, scanned in the iteration order of targets_:
\* each one found has its in-degree decremented once and is queued at zero
RECURSIVE ReduceDependents(_, _, _, _, _, _)
ReduceDependents(T, itT, k, current, inDegree, queue) ==
    IF k > Len(itT) THEN [inDegree |-> inDegree, queue |-> queue]
    ELSE LET name == itT[k] IN
         IF current \in Range(getDependencies(T, name))
         THEN LET d == [inDegree EXCEPT ![name] = @ - 1] IN
              ReduceDependents(T, itT, k + 1, current, d,
                               IF d[name] = 0 THEN Append(queue, name) ELSE queue)
         ELSE ReduceDependents(T, itT, k + 1, current, inDegree, queue)

RECURSIVE ProcessQueue(_, _, _, _, _, _)
ProcessQueue(T, itT, queue, idx, inDegree, result) ==
    IF idx > Len(queue) THEN result
    ELSE LET current == queue[idx]
             r == ReduceDependents(T, itT, 1, current, inDegree, queue)
         IN  ProcessQueue(T, itT, r.queue, idx + 1, r.inDegree, Append(result, current))

\* itT: iteration order of targets_, itD: iteration order of the inDegree map
topologicalSort(T, itT, itD) ==
    LET inDegree == InitialInDegree(T)
        queue == SelectSeq(itD, LAMBDA n : inDegree[n] = 0)
    IN  ProcessQueue(T, itT, queue, 1, inDegree, <<>>)

\* ---- DAG::hasCycleUtil / detectCyclesWithPath ----
\* a two-state marker: a finished node is taken for one on the current path
OnCurrentPath_TwoState(visited, dep) == visited[dep] # 0

OnCurrentPath(visited, dep) == visited[dep] = 1

RECURSIVE hasCycleUtil(_, _, _, _), hasCycleDeps(_, _, _, _, _)
hasCycleDeps(T, node, k, visited, recStack) ==
    LET deps == getDependencies(T, node) IN
    IF k > Len(deps)
    THEN [ret |-> FALSE, visited |-> [visited EXCEPT ![node] = 2],
          recStack |-> Front(recStack), cycleNodes |-> <<>>]
    ELSE LET dep == deps[k] IN
         IF visited[dep] = 0
         THEN LET r == hasCycleUtil(T, dep, visited, recStack) IN
              IF r.ret THEN r ELSE hasCycleDeps(T, node, k + 1, r.visited, r.recStack)
         ELSE IF OnCurrentPath(visited, dep)
         THEN [ret |-> TRUE, visited |-> visited, recStack |-> recStack,
               cycleNodes |-> Append(SubSeq(recStack, FirstIndex(recStack, dep), Len(recStack)), dep)]
         ELSE hasCycleDeps(T, node, k + 1, visited, recStack)

hasCycleUtil(T, node, visited, recStack) ==
    LET v == [visited EXCEPT ![node] = 1]
        rs == Append(recStack, node)
    IN  IF hasTarget(T, node)
        THEN hasCycleDeps(T, node, 1, v, rs)
        ELSE [ret |-> FALSE, visited |-> [v EXCEPT ![node] = 2],
              recStack |-> Front(rs), cycleNodes |-> <<>>]

RECURSIVE detectCyclesLoop(_, _, _, _, _)
detectCyclesLoop(T, itT, k, visited, recStack) ==
    IF k > Len(itT) THEN [hasCycle |-> FALSE, cycleNodes |-> <<>>]
    ELSE IF visited[itT[k]] = 0
    THEN LET r == hasCycleUtil(T, itT[k], visited, recStack) IN
         IF r.ret THEN [hasCycle |-> TRUE, cycleNodes |-> r.cycleNodes]
         ELSE detectCyclesLoop(T, itT, k + 1, r.visited, r.recStack)
    ELSE detectCyclesLoop(T, itT, k + 1, visited, recStack)

detectCyclesWithPath(T, itT) ==
    detectCyclesLoop(T, itT, 1, [n \in AllNames |-> 0], <<>>)

\* ---- DAG::validateDependencies ----
\* a missing name is reported once per target instead of once per reference
MissingOf_OncePerTarget(T, name) ==
    LET m == SelectSeq(getDependencies(T, name), LAMBDA dep : ~hasTarget(T, dep))
    IN  IF m = <<>> THEN m ELSE <<m[1]>>

MissingOf(T, name) == SelectSeq(getDependencies(T, name), LAMBDA dep : ~hasTarget(T, dep))

RECURSIVE validateLoop(_, _, _, _)
validateLoop(T, itT, k, missing) ==
    IF k > Len(itT) THEN missing
    ELSE validateLoop(T, itT, k + 1, missing \o MissingOf(T, itT[k]))

validateDependencies(T, itT) == validateLoop(T, itT, 1, <<>>)

(***************************************************************************)
(* The graph queries, applied to every graph within the bounds             *)
(***************************************************************************)
DepLists == SeqsUpTo(DagNames \cup {Ghost}, MaxDeps)
AllDags == UNION {[S -> {Target(d) : d \in DepLists}] : S \in SUBSET DagNames}

\* no file is looked at: an existence test may give either answer and a
\* signature is an opaque token
Unobserved == [observed |-> FALSE, inputs |-> <<>>, outputs |-> <<>>]
\* the first execution on the cache
FirstRun == [count |-> 1, earlier |-> <<>>, modified |-> {}, removed |-> {}, reloaded |-> FALSE]
NoFile == <<"no file">>
\* std::shared_mutex, unowned
Unlocked == [exclusive |-> 0, shared |-> {}]

\* the Cache is not exercised on its own
StoreIdle ==
    /\ cacheFile = NoFile
    /\ mutex_ = Unlocked
    /\ client = <<>>
    /\ cacheOp = "none"
    /\ cacheRet = <<>>
    /\ history = <<>>

\* the executor is not in use while the graph queries are examined
ExecutorIdle ==
    /\ config_ = [numThreads |-> 1, stopOnError |-> TRUE, dryRun |-> FALSE]
    /\ cancelled_ = FALSE
    /\ call = "none"
    /\ order = <<>>
    /\ pc = <<>>
    /\ targetName = <<>>
    /\ curIdx = 0
    /\ completed = <<>>
    /\ inProgress = <<>>
    /\ failed = FALSE
    /\ processedCount = 0
    /\ stats = [totalTargets |-> 0, builtTargets |-> 0, skippedTargets |-> 0, failedTargets |-> 0]
    /\ events = {}
    /\ retval = FALSE
    /\ runnerCalls = {}
    /\ cmdFailed = {}
    /\ cacheAtStart = <<>>
    /\ written = {}
    /\ sawCancel = FALSE
    /\ runs = FirstRun

\* no Signature function is exercised on its own
SignatureIdle == sigOp = "none" /\ sigRet = <<>>

InitDag ==
    /\ targets_ \in AllDags
    /\ dagOp = "none"
    /\ dagRet = <<>>
    /\ ExecutorIdle
    /\ files = Unobserved
    /\ StoreIdle
    /\ SignatureIdle
    /\ cache = <<>>

CallTopologicalSort ==
    /\ dagOp = "none"
    /\ \E itT \in Perms(DOMAIN targets_), itD \in Perms(DOMAIN targets_) :
          dagRet' = topologicalSort(targets_, itT, itD)
    /\ dagOp' = "topologicalSort"
    /\ UNCHANGED <<targets_, execVars>>

CallDetectCycles ==
    /\ dagOp = "none"
    /\ \E itT \in Perms(DOMAIN targets_) :
          dagRet' = detectCyclesWithPath(targets_, itT)
    /\ dagOp' = "detectCyclesWithPath"
    /\ UNCHANGED <<targets_, execVars>>

CallValidateDependencies ==
    /\ dagOp = "none"
    /\ \E itT \in Perms(DOMAIN targets_) :
          dagRet' = validateDependencies(targets_, itT)
    /\ dagOp' = "validateDependencies"
    /\ UNCHANGED <<targets_, execVars>>

NextDag == CallTopologicalSort \/ CallDetectCycles \/ CallValidateDependencies

SpecDag == InitDag /\ [][NextDag]_vars

(***************************************************************************)
(* Building the graph: addTarget and removeTarget                          *)
(***************************************************************************)
\* a Target with all its fields
FullTarget(name, command, inputs, outputs, deps) ==
    [name |-> name, command |-> command, inputs |-> inputs, outputs |-> outputs,
     dependencies |-> deps]
\* the targets handed to addTarget
Candidates ==
    {FullTarget(n, c, <<"in">>, o, d) :
        n \in DagNames, c \in {"cc", "ld"}, o \in {<<>>, <<"out">>}, d \in {<<>>, <<"A">>}}
\* a TargetPtr: null, or pointing to a target
TargetPtrs == {[null |-> TRUE, target |-> <<>>]} \cup {[null |-> FALSE, target |-> c] : c \in Candidates}

\* the target is stored also when its name is registered
addTarget_Overwrites(T, target) ==
    [ret |-> ~hasTarget(T, target.name),
     targets |-> [n \in DOMAIN T \cup {target.name} |-> IF n = target.name THEN target ELSE T[n]]]

\* DAG::addTarget(const Target&) and DAG::addTarget(Target&&)
addTarget(T, target) ==
    IF hasTarget(T, target.name) THEN [ret |-> FALSE, targets |-> T]
    ELSE [ret |-> TRUE,
          targets |-> [n \in DOMAIN T \cup {target.name} |-> IF n = target.name THEN target ELSE T[n]]]

\* DAG::addTarget(TargetPtr)
addTargetPtr(T, ptr) ==
    IF ptr.null THEN [ret |-> FALSE, targets |-> T] ELSE addTarget(T, ptr.target)

\* DAG::removeTarget
removeTarget(T, name) ==
    [ret |-> hasTarget(T, name), targets |-> [n \in DOMAIN T \ {name} |-> T[n]]]

InitAdd ==
    /\ targets_ = <<>>
    /\ dagOp = "none"
    /\ dagRet = <<>>
    /\ ExecutorIdle
    /\ files = Unobserved
    /\ StoreIdle
    /\ SignatureIdle
    /\ cache = <<>>

CallAddTarget ==
    /\ \E target \in Candidates :
          LET r == addTarget(targets_, target) IN
          /\ targets_' = r.targets
          /\ dagRet' = [ret |-> r.ret, null |-> FALSE, target |-> target, before |-> targets_]
    /\ dagOp' = "addTarget"
    /\ UNCHANGED execVars

CallAddTargetPtr ==
    /\ \E ptr \in TargetPtrs :
          LET r == addTargetPtr(targets_, ptr) IN
          /\ targets_' = r.targets
          /\ dagRet' = [ret |-> r.ret, null |-> ptr.null, target |-> ptr.target, before |-> targets_]
    /\ dagOp' = "addTarget"
    /\ UNCHANGED execVars

CallRemoveTarget ==
    /\ \E name \in DagNames :
          LET r == removeTarget(targets_, name) IN
          /\ targets_' = r.targets
          /\ dagRet' = [ret |-> r.ret, null |-> FALSE, target |-> name, before |-> targets_]
    /\ dagOp' = "removeTarget"
    /\ UNCHANGED execVars

\* DAG::clear
clear(T) == <<>>

CallClear ==
    /\ targets_ # <<>>
    /\ targets_' = clear(targets_)
    /\ dagRet' = [ret |-> TRUE, null |-> FALSE, target |-> <<>>, before |-> targets_]
    /\ dagOp' = "clear"
    /\ UNCHANGED execVars

MaxRenamed == 1      \* stored targets renamed through a pointer at a time

\* the stored targets whose name is not the key they are stored under
Renamed(T) == {k \in DOMAIN T : T[k].name # k}

\* Target::setName on the target stored under `key`, reached through the
\* pointer of the non-const DAG::getTarget, of DAG::getTargetPtr or of the
\* TargetPtr handed to addTarget: the map is not touched
setName(T, key, name) == [T EXCEPT ![key].name = name]

CallSetName ==
    /\ \E key \in DOMAIN targets_, name \in DagNames :
          /\ Cardinality(Renamed(targets_) \cup {key}) <= MaxRenamed
          /\ targets_' = setName(targets_, key, name)
          /\ dagRet' = [ret |-> TRUE, null |-> FALSE, target |-> name, before |-> targets_]
    /\ dagOp' = "setName"
    /\ UNCHANGED execVars

NextAdd ==
    CallAddTarget \/ CallAddTargetPtr \/ CallRemoveTarget \/ CallClear \/ CallSetName

SpecAdd == InitAdd /\ [][NextAdd]_vars

(***************************************************************************)
(* Signature (src/src/signature.cpp). An unsigned int is kept as its two   *)
(* 16-bit halves <<high, low>>.                                            *)
(***************************************************************************)
Half == 65536

RECURSIVE Xor(_, _)
\* a ^ b on naturals
Xor(a, b) ==
    IF a = 0 THEN b
    ELSE IF b = 0 THEN a
    ELSE (((a % 2) + (b % 2)) % 2) + 2 * Xor(a \div 2, b \div 2)

\* h ^ d for a byte d
XorByte(h, d) == <<h[1], Xor(h[2], d)>>
\* h ^ g
XorWord(h, g) == <<Xor(h[1], g[1]), Xor(h[2], g[2])>>
\* (h << 7) | (h >> 25)
RotateLeft7(h) ==
    <<((h[1] * 128) % Half) + (h[2] \div 512), ((h[2] * 128) % Half) + (h[1] \div 512)>>
\* h + d modulo 2^32 for a byte d
AddByte(h, d) == <<(h[1] + ((h[2] + d) \div Half)) % Half, (h[2] + d) % Half>>

H0 == <<27145, 58983>>      \* 0x6a09e667
H1 == <<47975, 44677>>      \* 0xbb67ae85
H2 == <<15470, 62322>>      \* 0x3c6ef372
\* h3 .. h7 are constants of the function: a54ff53a 510e527f 9b05688c 1f83d9ab 5be0cd19
HexTail ==
    <<"a","5","4","f","f","5","3","a", "5","1","0","e","5","2","7","f",
      "9","b","0","5","6","8","8","c", "1","f","8","3","d","9","a","b",
      "5","b","e","0","c","d","1","9">>

HexDigits == <<"0","1","2","3","4","5","6","7","8","9","a","b","c","d","e","f">>
\* std::setw(4)-wide hexadecimal of a half
HexHalf(x) ==
    <<HexDigits[(x \div 4096) + 1], HexDigits[((x \div 256) % 16) + 1],
      HexDigits[((x \div 16) % 16) + 1], HexDigits[(x % 16) + 1]>>
HexWord(h) == HexHalf(h[1]) \o HexHalf(h[2])

\* the byte of a character of a command or of a signature
Ord(ch) ==
    IF \E i \in 1..10 : HexDigits[i] = ch THEN 47 + FirstIndex(HexDigits, ch)
    ELSE IF \E i \in 11..16 : HexDigits[i] = ch THEN 86 + FirstIndex(HexDigits, ch)
    ELSE IF ch = "|" THEN 124
    ELSE 108  \* "l"
\* the bytes of a text (a sequence written out, not a function evaluated at each access)
Bytes(text) == <<>> \o [i \in 1..Len(text) |-> Ord(text[i])]

\* one round of the loop over the bytes, on <<h0, h1, h2>>
sha256Round(h, byte) ==
    LET g0 == RotateLeft7(XorByte(h[1], byte))
    IN  <<g0, XorWord(h[2], g0), AddByte(h[3], byte)>>

RECURSIVE sha256Bytes(_, _, _)
\* the rounds for up to sixteen bytes after the first `done` ones;
\* rounds: <<h0, h1, h2>> before them and after each of them handled so far
sha256Bytes(d, done, rounds) ==
    IF Len(rounds) > 16 \/ done + Len(rounds) > Len(d) THEN rounds[Len(rounds)]
    ELSE sha256Bytes(d, done,
                     Append(rounds, sha256Round(rounds[Len(rounds)], d[done + Len(rounds)])))

RECURSIVE sha256Loop(_, _)
\* the loop over the bytes, taken sixteen at a time;
\* blocks: <<h0, h1, h2>> at the start and after each sixteen bytes handled so far
sha256Loop(d, blocks) ==
    IF 16 * (Len(blocks) - 1) >= Len(d) THEN blocks[Len(blocks)]
    ELSE sha256Loop(d, Append(blocks, sha256Bytes(d, 16 * (Len(blocks) - 1),
                                                  <<blocks[Len(blocks)]>>)))

\* Signature::sha256 of a byte string: 64 hexadecimal characters
sha256(d) ==
    LET h == sha256Loop(d, <<<<H0, H1, H2>>>>)
    IN  HexWord(h[1]) \o HexWord(h[2]) \o HexWord(h[3]) \o HexTail

\* a file as the signature sees it: whether it can be opened, and its bytes
File(bytes) == [exists |-> TRUE, bytes |-> bytes]
MissingFile == [exists |-> FALSE, bytes |-> <<>>]
\* a file that cannot be opened is signed like an empty one
computeFileSignature_MissingAsEmptyFile(file) == sha256(file.bytes)

\* Signature::computeFileSignature: the empty string for a file that cannot be opened
computeFileSignature(file) == IF file.exists THEN sha256(file.bytes) ELSE <<>>

RECURSIVE combineInputs(_, _)
combineInputs(combined, inputs) ==
    IF inputs = <<>> THEN combined
    ELSE combineInputs(combined \o <<"|">> \o computeFileSignature(inputs[1]), Tail(inputs))

\* Signature::computeTargetSignature
computeTargetSignature(command, inputs) == sha256(Bytes(combineInputs(command, inputs)))

(***************************************************************************)
(* Cache and signatures, as the executor uses them                         *)
(***************************************************************************)
NoEntry == <<"absent">>
\* the command of a target, and the states its one declared input can be in:
\* three contents of four bytes, and not there
Command == <<"l", "l">>
InputFiles == {File(<<0, 0, 1, 128>>), File(<<1, 128, 0, 0>>), File(<<0, 0, 0, 0>>), MissingFile}
SignatureOf == [f \in InputFiles |-> computeTargetSignature(Command, <<f>>)]
\* Signature::computeTargetSignature of the target's command and inputs as they are
TargetSignature(name) ==
    IF files.observed THEN SignatureOf[files.inputs[name]] ELSE <<"sig", name>>

\* the outputs are taken to be there whatever the files are
OutputsExistResults_AlwaysThere(name) == {TRUE}

\* what the loop over the outputs (std::ifstream::good) can find: all of them there, or not
OutputsExistResults(name) == IF files.observed THEN {files.outputs[name]} ELSE BOOLEAN
\* a signature stored by an earlier build of other input contents
StaleSignature(name) == <<"old", name>>

\* absence is taken for the empty signature
needsRebuild_ViaGetSignature(c, name, currentSig) ==
    (IF c[name] # NoEntry THEN c[name] ELSE <<>>) # currentSig

needsRebuild(c, name, currentSig) == c[name] = NoEntry \/ c[name] # currentSig
isOutOfDate(name, c) == needsRebuild(c, name, TargetSignature(name))
setSignature(c, name, sig) == [c EXCEPT ![name] = sig]

(***************************************************************************)
(* Signature::computeTargetSignature on its own, over files that are       *)
(* rewritten between the calls                                             *)
(***************************************************************************)
MaxInputs == 2       \* input paths handed to one call
MaxSigCalls == 2     \* calls of computeTargetSignature

Paths == {"p", "q"}
InputLists == SeqsUpTo(Paths, MaxInputs)
\* the commands handed in: none, "cc", "ld"
Commands == {<<>>, <<"c", "c">>, <<"l", "d">>}
\* the files behind a list of paths, as they are now
Contents(inputs) == [i \in 1..Len(inputs) |-> files.inputs[inputs[i]]]
\* computeTargetSignature of every command over every list of file states,
\* worked out once: <<command, contents, signature>>
SignatureTable ==
    {<<a[1], a[2], computeTargetSignature(a[1], a[2])>> :
        a \in Commands \X SeqsUpTo(InputFiles, MaxInputs)}
TargetSignatures ==
    [a \in Commands \X SeqsUpTo(InputFiles, MaxInputs) |->
        (CHOOSE t \in SignatureTable : t[1] = a[1] /\ t[2] = a[2])[3]]

InitSig ==
    /\ targets_ = <<>>
    /\ dagOp = "none"
    /\ dagRet = <<>>
    /\ ExecutorIdle
    /\ StoreIdle
    /\ cache = <<>>
    /\ files \in [observed : {TRUE}, inputs : [Paths -> InputFiles], outputs : {<<>>}]
    /\ SignatureIdle

sigFrame == <<targets_, dagOp, dagRet, config_, cancelled_, cache, call, order, pc, targetName,
              curIdx, completed, inProgress, failed, processedCount, stats, events, retval,
              runnerCalls, cmdFailed, cacheAtStart, written, sawCancel, runs, cacheFile,
              mutex_, client, cacheOp, cacheRet, history>>

CallComputeTargetSignature ==
    /\ Len(sigRet) < MaxSigCalls
    /\ \E command \in Commands, inputs \in InputLists :
          sigRet' = Append(sigRet, [command |-> command, inputs |-> inputs,
                                    contents |-> Contents(inputs),
                                    ret |-> TargetSignatures[<<command, Contents(inputs)>>]])
    /\ sigOp' = "computeTargetSignature"
    /\ UNCHANGED <<sigFrame, files>>

\* after a call, one of the files is rewritten with other contents, removed, or created
WriteFile ==
    /\ sigOp = "computeTargetSignature"
    /\ Len(sigRet) < MaxSigCalls
    /\ \E path \in Paths, f \in InputFiles :
          /\ f # files.inputs[path]
          /\ files' = [files EXCEPT !.inputs[path] = f]
    /\ sigOp' = "write"
    /\ UNCHANGED <<sigFrame, sigRet>>

NextSig == CallComputeTargetSignature \/ WriteFile

SpecSig == InitSig /\ [][NextSig]_vars

(***************************************************************************)
(* Cache on its own: the map, its file, the lock (src/src/cache.cpp)       *)
(***************************************************************************)
MaxTextLen == 2      \* longest name and longest signature handed to the Cache
MaxEntries == 2      \* most entries of the Cache

EQ == "="
LF == "\n"
\* the characters of names and signatures: an ordinary one, the separator, the line end
StoreAlphabet == {"a", EQ, LF}
Texts == SeqsUpTo(StoreAlphabet, MaxTextLen)
\* signatures the Cache is asked about
QueryTexts == {t \in Texts : Len(t) <= 1}

EmptyStore == [k \in Texts |-> NoEntry]
Entries(c) == {k \in DOMAIN c : c[k] # NoEntry}

getSignature(c, name) == IF c[name] # NoEntry THEN c[name] ELSE <<>>
findSignature(c, name) ==
    IF c[name] # NoEntry THEN [engaged |-> TRUE, value |-> c[name]]
    ELSE [engaged |-> FALSE, value |-> <<>>]
removeSignature(c, name) == [ret |-> c[name] # NoEntry, signatures |-> [c EXCEPT ![name] = NoEntry]]
cacheSize(c) == Cardinality(Entries(c))

\* Cache::save: one line name=signature per entry, in the iteration order `it`
RECURSIVE save(_, _)
save(c, it) ==
    IF it = <<>> THEN <<>>
    ELSE it[1] \o <<EQ>> \o c[it[1]] \o <<LF>> \o save(c, Tail(it))

\* the rest of the file is read as one line
LineEnd_RestOfFile(text, pos) == Len(text) + 1

\* std::getline from pos: the position of the line end, Len + 1 when the text ends first
LineEnd(text, pos) ==
    IF \E i \in pos..Len(text) : text[i] = LF
    THEN CHOOSE i \in pos..Len(text) : text[i] = LF /\ \A j \in pos..(i - 1) : text[j] # LF
    ELSE Len(text) + 1

\* the separator is taken to be the last '=' of the line
SeparatorPos_Last(line) ==
    IF \E i \in 1..Len(line) : line[i] = EQ
    THEN CHOOSE i \in 1..Len(line) : line[i] = EQ /\ \A j \in (i + 1)..Len(line) : line[j] # EQ
    ELSE Len(line) + 1

\* line.find('='): the first '=' of the line, npos (Len + 1 here) when there is none
SeparatorPos(line) == FirstIndex(line, EQ)

RECURSIVE loadLines(_, _, _)
loadLines(text, pos, sigs) ==
    IF pos > Len(text) THEN sigs
    ELSE LET e == LineEnd(text, pos)
             line == SubSeq(text, pos, e - 1)
             p == SeparatorPos(line)
         IN  loadLines(text, e + 1,
                       IF p <= Len(line)
                       THEN [sigs EXCEPT ![SubSeq(line, 1, p - 1)] = SubSeq(line, p + 1, Len(line))]
                       ELSE sigs)

\* the map is cleared before the file is opened
load_ClearsFirst(c, file) ==
    IF file = NoFile THEN [ret |-> FALSE, signatures |-> EmptyStore]
    ELSE [ret |-> TRUE, signatures |-> loadLines(file, 1, EmptyStore)]

\* Cache::load: false and no change without the file, else the map is cleared and refilled
load(c, file) ==
    IF file = NoFile THEN [ret |-> FALSE, signatures |-> c]
    ELSE [ret |-> TRUE, signatures |-> loadLines(file, 1, EmptyStore)]

InitStore ==
    /\ targets_ = <<>>
    /\ dagOp = "none"
    /\ dagRet = <<>>
    /\ ExecutorIdle
    /\ files = Unobserved
    /\ StoreIdle
    /\ SignatureIdle
    /\ cache = EmptyStore

storeFrame == <<targets_, dagOp, dagRet, config_, cancelled_, call, order, pc, targetName, curIdx,
                completed, inProgress, failed, processedCount, stats, events, retval,
                runnerCalls, cmdFailed, cacheAtStart, written, sawCancel, files, runs, sigVars>>

CallSetSignature ==
    /\ cacheOp = "none"
    /\ \E name \in Texts, signature \in Texts :
          /\ cache[name] # NoEntry \/ cacheSize(cache) < MaxEntries
          /\ cache' = setSignature(cache, name, signature)
    /\ UNCHANGED <<storeFrame, cacheFile, mutex_, client, cacheOp, cacheRet, history>>

CallSave ==
    /\ cacheOp = "none"
    /\ \E it \in Perms(Entries(cache)) : cacheFile' = save(cache, it)
    /\ cacheOp' = "save"
    /\ cacheRet' = [ret |-> TRUE, saved |-> cache]
    /\ UNCHANGED <<storeFrame, cache, mutex_, client, history>>

\* load() of a new Cache over the same directory
CallLoad ==
    /\ cacheOp \in {"none", "save"}
    /\ LET r == load(EmptyStore, cacheFile) IN
          /\ cache' = r.signatures
          /\ cacheRet' = [ret |-> r.ret, saved |-> cache]
    /\ cacheOp' = "load"
    /\ UNCHANGED <<storeFrame, cacheFile, mutex_, client, history>>

\* load() of the Cache that holds the entries set so far, saved or not
CallLoadInPlace ==
    /\ cacheOp \in {"none", "save"}
    /\ LET r == load(cache, cacheFile) IN
          /\ cache' = r.signatures
          /\ cacheRet' = [ret |-> r.ret, before |-> cache]
    /\ cacheOp' = "loadInPlace"
    /\ UNCHANGED <<storeFrame, cacheFile, mutex_, client, history>>

CallNeedsRebuild ==
    /\ cacheOp = "none"
    /\ \E name \in Texts, currentSignature \in QueryTexts :
          cacheRet' = [name |-> name, currentSignature |-> currentSignature,
                       ret |-> needsRebuild(cache, name, currentSignature),
                       found |-> findSignature(cache, name)]
    /\ cacheOp' = "needsRebuild"
    /\ UNCHANGED <<storeFrame, cache, cacheFile, mutex_, client, history>>

NextStore ==
    CallSetSignature \/ CallSave \/ CallLoad \/ CallLoadInPlace \/ CallNeedsRebuild

SpecStore == InitStore /\ [][NextStore]_vars

(***************************************************************************)
(* Cache used by several threads at once                                   *)
(***************************************************************************)
MaxClients == 2      \* threads calling the Cache
MaxOps == 2          \* calls each thread makes

Clients == 1..MaxClients
ClientNames == {<<"a">>, <<"a", "a">>}
ClientSignatures == {<<>>, <<"a">>}
\* the operations that take the shared lock, save() among them
ReadOps == {"getSignature", "findSignature", "needsRebuild", "size", "empty", "save"}
\* the operations that take the exclusive lock
WriteOps == {"setSignature", "removeSignature", "clear", "load"}
\* the calls a thread can make: operation, name, signature (where the operation takes one)
ClientCalls ==
    {[op |-> o, name |-> n, signature |-> <<>>] :
        o \in {"getSignature", "findSignature", "removeSignature"}, n \in ClientNames}
    \cup {[op |-> "setSignature", name |-> n, signature |-> v] :
            n \in ClientNames, v \in ClientSignatures}
    \cup {[op |-> "needsRebuild", name |-> n, signature |-> v] :
            n \in ClientNames, v \in ClientSignatures}
    \cup {[op |-> o, name |-> <<>>, signature |-> <<>>] :
            o \in {"size", "empty", "save", "load", "clear"}}
NoCall == [op |-> "none", name |-> <<>>, signature |-> <<>>]
ClientIdle == [pc |-> "idle", call |-> NoCall, made |-> 0, local |-> <<>>, ret |-> <<>>]

InitCache ==
    /\ targets_ = <<>>
    /\ dagOp = "none"
    /\ dagRet = <<>>
    /\ ExecutorIdle
    /\ files = Unobserved
    /\ SignatureIdle
    /\ cache = EmptyStore
    /\ cacheFile = NoFile
    /\ mutex_ = Unlocked
    /\ client = [t \in Clients |-> ClientIdle]
    /\ cacheOp = "none"
    /\ cacheRet = <<>>
    /\ history = [everSet |-> {}, applied |-> [n \in ClientNames |-> "none"]]

\* a thread calls an operation of the Cache
C_Call(t) ==
    /\ client[t].pc = "idle"
    /\ client[t].made < MaxOps
    /\ \E c \in ClientCalls :
          /\ client' = [client EXCEPT ![t] = [@ EXCEPT !.pc = "lock", !.call = c,
                                                      !.made = @ + 1, !.ret = <<>>]]
          /\ history' = IF c.op = "setSignature"
                        THEN [history EXCEPT !.everSet = @ \cup {<<c.name, c.signature>>}]
                        ELSE history
    /\ UNCHANGED <<storeFrame, cache, cacheFile, mutex_, cacheOp, cacheRet>>

\* the exclusive lock is granted whoever else holds the mutex
CanLockUnique_NoExclusion(m) == TRUE

\* std::unique_lock<std::shared_mutex>: no other owner of either kind
CanLockUnique(m) == m.exclusive = 0 /\ m.shared = {}

\* the shared lock is granted while a writer holds the mutex
CanLockShared_IgnoresWriter(m) == TRUE

\* std::shared_lock<std::shared_mutex>: no exclusive owner
CanLockShared(m) == m.exclusive = 0

\* the lock at the head of a reading operation
C_LockShared(t) ==
    /\ client[t].pc = "lock"
    /\ client[t].call.op \in ReadOps
    /\ CanLockShared(mutex_)
    /\ mutex_' = [mutex_ EXCEPT !.shared = @ \cup {t}]
    /\ client' = [client EXCEPT ![t].pc = IF client[t].call.op = "save" THEN "open" ELSE "read"]
    /\ UNCHANGED <<storeFrame, cache, cacheFile, cacheOp, cacheRet, history>>

\* the lock at the head of a writing operation
C_LockUnique(t) ==
    /\ client[t].pc = "lock"
    /\ client[t].call.op \in WriteOps
    /\ CanLockUnique(mutex_)
    /\ mutex_' = [mutex_ EXCEPT !.exclusive = t]
    /\ client' = [client EXCEPT ![t].pc = "fetch"]
    /\ UNCHANGED <<storeFrame, cache, cacheFile, cacheOp, cacheRet, history>>

\* Cache::empty
cacheEmpty(c) == Entries(c) = {}

\* getSignature, findSignature, needsRebuild, size, empty: the value the operation returns
C_Read(t) ==
    /\ client[t].pc = "read"
    /\ LET c == client[t].call
           r == IF c.op = "getSignature" THEN getSignature(cache, c.name)
                ELSE IF c.op = "findSignature" THEN findSignature(cache, c.name)
                ELSE IF c.op = "needsRebuild" THEN needsRebuild(cache, c.name, c.signature)
                ELSE IF c.op = "empty" THEN cacheEmpty(cache)
                ELSE cacheSize(cache)
       IN  client' = [client EXCEPT ![t] = [@ EXCEPT !.pc = "unlock", !.ret = r]]
    /\ UNCHANGED <<storeFrame, cache, cacheFile, mutex_, cacheOp, cacheRet, history>>

\* save: the file is opened for writing, the loop over the map begins
C_SaveOpen(t) ==
    /\ client[t].pc = "open"
    /\ cacheFile' = <<>>
    /\ client' = [client EXCEPT ![t] = [@ EXCEPT !.pc = "write", !.local = cache]]
    /\ UNCHANGED <<storeFrame, cache, mutex_, cacheOp, cacheRet, history>>

\* save: the loop ends, every entry of the map as it is now is in the file
C_SaveWrite(t) ==
    /\ client[t].pc = "write"
    /\ \E it \in Perms(Entries(cache)) : cacheFile' = save(cache, it)
    /\ client' = [client EXCEPT ![t] = [@ EXCEPT !.pc = "unlock", !.local = <<>>,
                                                !.ret = [ret |-> TRUE, first |-> client[t].local,
                                                         last |-> cache]]]
    /\ UNCHANGED <<storeFrame, cache, mutex_, cacheOp, cacheRet, history>>

\* what took effect last on each name once the map was replaced by `c`
AppliedBy(c) == [n \in ClientNames |-> IF c[n] # NoEntry THEN "set" ELSE "remove"]

\* setSignature, removeSignature, clear, load: the update of the map begins with the map as it is
C_Fetch(t) ==
    /\ client[t].pc = "fetch"
    /\ client' = [client EXCEPT ![t] = [@ EXCEPT !.pc = "store", !.local = cache]]
    /\ UNCHANGED <<storeFrame, cache, cacheFile, mutex_, cacheOp, cacheRet, history>>

\* ... and ends with the map changed: in the one entry, emptied, or refilled from the file
C_Store(t) ==
    /\ client[t].pc = "store"
    /\ LET c == client[t].call IN
          IF c.op = "setSignature"
          THEN /\ cache' = setSignature(client[t].local, c.name, c.signature)
               /\ history' = [history EXCEPT !.applied[c.name] = "set"]
               /\ client' = [client EXCEPT ![t] = [@ EXCEPT !.pc = "unlock", !.local = <<>>]]
          ELSE IF c.op = "removeSignature"
          THEN LET r == removeSignature(client[t].local, c.name) IN
               /\ cache' = r.signatures
               /\ history' = [history EXCEPT !.applied[c.name] = "remove"]
               /\ client' = [client EXCEPT ![t] = [@ EXCEPT !.pc = "unlock", !.local = <<>>,
                                                           !.ret = r.ret]]
          ELSE IF c.op = "clear"
          THEN /\ cache' = EmptyStore
               /\ history' = [history EXCEPT !.applied = AppliedBy(EmptyStore)]
               /\ client' = [client EXCEPT ![t] = [@ EXCEPT !.pc = "unlock", !.local = <<>>]]
          ELSE LET r == load(client[t].local, cacheFile) IN
               /\ cache' = r.signatures
               /\ history' = IF r.ret THEN [history EXCEPT !.applied = AppliedBy(r.signatures)]
                              ELSE history
               /\ client' = [client EXCEPT ![t] = [@ EXCEPT !.pc = "unlock", !.local = <<>>,
                                                           !.ret = r.ret]]
    /\ UNCHANGED <<storeFrame, cacheFile, mutex_, cacheOp, cacheRet>>

\* the lock guard is destroyed and the operation returns
C_Return(t) ==
    /\ client[t].pc = "unlock"
    /\ mutex_' = [exclusive |-> IF mutex_.exclusive = t THEN 0 ELSE mutex_.exclusive,
                  shared |-> mutex_.shared \ {t}]
    /\ client' = [client EXCEPT ![t].pc = "idle"]
    /\ UNCHANGED <<storeFrame, cache, cacheFile, cacheOp, cacheRet, history>>

ClientStep(t) ==
    \/ C_Call(t) \/ C_LockShared(t) \/ C_LockUnique(t) \/ C_Read(t)
    \/ C_SaveOpen(t) \/ C_SaveWrite(t) \/ C_Fetch(t) \/ C_Store(t) \/ C_Return(t)

NextCache == \E t \in Clients : ClientStep(t)

SpecCache == InitCache /\ [][NextCache]_vars

(***************************************************************************)
(* Executor                                                                *)
(***************************************************************************)
Threads == 0..MaxWorkers
Workers == 1..config_.numThreads
Caller == 0

\* acyclic dependency-closed graphs: a target depends on targets named before it
RECURSIVE AscendingSeq(_)
AscendingSeq(S) ==
    IF S = {} THEN <<>>
    ELSE LET i == CHOOSE k \in S : \A j \in S : k <= j
         IN  <<NameList[i]>> \o AscendingSeq(S \ {i})
GeneratedDags ==
    {T \in UNION {[{NameList[i] : i \in 1..n} ->
                     {Target(AscendingSeq(S)) : S \in SUBSET (1..(MaxTargets - 1))}]
                 : n \in 0..MaxTargets} :
        \A i \in 1..MaxTargets : NameList[i] \in DOMAIN T =>
            \A d \in Range(getDependencies(T, NameList[i])) :
                \E j \in 1..(i - 1) : d = NameList[j]}
\* the diamond A, B->{A}, C->{A}, D->{B,C}
Diamond ==
    [n \in {"A", "B", "C", "D"} |->
        Target(IF n = "A" THEN <<>> ELSE IF n = "D" THEN <<"B", "C">> ELSE <<"A">>)]
\* a dependency named twice: A, B->{A,A}
RepeatedDep == [n \in {"A", "B"} |-> Target(IF n = "A" THEN <<>> ELSE <<"A", "A">>)]
ExecDags == GeneratedDags \cup {Diamond, RepeatedDep}
ExecNames == UNION {DOMAIN T : T \in ExecDags}

Configs == [numThreads : 1..MaxWorkers, stopOnError : BOOLEAN, dryRun : BOOLEAN]
\* the cache before the execution: empty, or holding for every target the
\* signature of its present inputs, or holding for every target an older one
InitialCaches(T) ==
    {[n \in ExecNames |-> IF n \in DOMAIN T THEN kind[n] ELSE NoEntry] :
        kind \in {[n \in ExecNames |-> NoEntry],
                  [n \in ExecNames |-> TargetSignature(n)],
                  [n \in ExecNames |-> StaleSignature(n)]}}

Init ==
    /\ targets_ \in ExecDags
    /\ dagOp = "none"
    /\ dagRet = <<>>
    /\ config_ \in Configs
    /\ cancelled_ = FALSE
    /\ files = Unobserved
    /\ cache \in InitialCaches(targets_)
    /\ call = "none"
    /\ order = <<>>
    /\ pc = [th \in Threads |-> "idle"]
    /\ targetName = [th \in Threads |-> ""]
    /\ curIdx = 0
    /\ completed = <<>>
    /\ inProgress = <<>>
    /\ failed = FALSE
    /\ processedCount = 0
    /\ stats = [totalTargets |-> 0, builtTargets |-> 0, skippedTargets |-> 0, failedTargets |-> 0]
    /\ events = {}
    /\ retval = FALSE
    /\ runnerCalls = {}
    /\ cmdFailed = {}
    /\ cacheAtStart = [n \in ExecNames |-> NoEntry]
    /\ written = {}
    /\ sawCancel = FALSE
    /\ runs = FirstRun
    /\ StoreIdle
    /\ SignatureIdle

\* printStatus(status, name): the human output channel
Printed(name, status) == <<"print", name, status>>
\* progressCallback_(name, current, total, status); a callback is registered
Callback(name, status) == <<"callback", name, status>>

\* Executor::cancel, callable from any thread at any moment
Cancel ==
    /\ ~cancelled_
    /\ cancelled_' = TRUE
    /\ UNCHANGED <<targets_, dagOp, dagRet, config_, cache, call, order, pc, targetName,
                   curIdx, completed, inProgress, failed, processedCount, stats, events,
                   retval, runnerCalls, cmdFailed, cacheAtStart, sawCancel, written,
                   files, runs, storeVars>>

\* What dag.topologicalSort() can return. The iteration order of the inDegree map
\* only orders the targets that start with in-degree zero and the iteration order
\* of targets_ only orders the others, so one permutation stands for both.
TopologicalOrders(T) == {topologicalSort(T, it, it) : it \in Perms(DOMAIN T)}

\* Executor::executeWithStats up to the point where the strategy's loop starts
Execute ==
    /\ call = "none"
    /\ call' = "execute"
    /\ order' \in TopologicalOrders(targets_)
    /\ stats' = [stats EXCEPT !.totalTargets = Len(order')]
    /\ IF config_.numThreads <= 1
       THEN /\ pc' = [pc EXCEPT ![Caller] = "st_loop"]
            /\ UNCHANGED <<completed, inProgress>>
       ELSE /\ pc' = [th \in Threads |->
                        IF th = Caller THEN "join"
                        ELSE IF th \in Workers THEN "top" ELSE pc[th]]
            /\ completed' = [n \in Range(order') |-> FALSE]
            /\ inProgress' = [n \in Range(order') |-> FALSE]
    /\ UNCHANGED <<targets_, dagOp, dagRet, config_, cancelled_, cache, targetName, curIdx,
                   failed, processedCount, events, retval, runnerCalls, cmdFailed,
                   cacheAtStart, sawCancel, written, files, runs, storeVars>>

\* what no executor step changes
fixedVars == <<targets_, dagOp, dagRet, config_, call, order, runs, storeVars>>
\* the shared state of the multi-threaded strategy
mtVars == <<completed, inProgress, failed, processedCount>>

\* the runner is invoked in dry-run mode too
RunnerInvoked_EvenInDryRun(cfg) == TRUE

\* Executor::runCommand: in dry-run mode success without the runner, else the runner is invoked
RunnerInvoked(cfg) == ~cfg.dryRun

\* ---- Executor::executeSingleThreaded ----
\* the loop over `order` is exhausted: return stats.failedTargets == 0
ST_Return ==
    /\ pc[Caller] = "st_loop"
    /\ curIdx = Len(order)
    /\ retval' = (stats.failedTargets = 0)
    /\ pc' = [pc EXCEPT ![Caller] = "done"]
    /\ UNCHANGED <<files, fixedVars, mtVars, cancelled_, cache, targetName, curIdx, stats, events,
                   runnerCalls, cmdFailed, cacheAtStart, sawCancel, written>>

\* loop head with the cancel flag set: return false
ST_Cancelled ==
    /\ pc[Caller] = "st_loop"
    /\ curIdx < Len(order)
    /\ cancelled_
    /\ retval' = FALSE
    /\ sawCancel' = TRUE
    /\ pc' = [pc EXCEPT ![Caller] = "done"]
    /\ UNCHANGED <<files, fixedVars, mtVars, cancelled_, cache, targetName, curIdx, stats, events,
                   runnerCalls, cmdFailed, cacheAtStart, written>>

\* the loop head does not look at the cancel flag
ST_Enter_IgnoresCancel ==
    /\ pc[Caller] = "st_loop"
    /\ curIdx < Len(order)
    /\ curIdx' = curIdx + 1
    /\ LET name == order[curIdx + 1] IN
         IF hasTarget(targets_, name)
         THEN /\ targetName' = [targetName EXCEPT ![Caller] = name]
              /\ events' = events \cup {Callback(name, "BUILDING")}
              /\ cacheAtStart' = [cacheAtStart EXCEPT ![name] = cache[name]]
              /\ pc' = [pc EXCEPT ![Caller] = "st_check"]
         ELSE UNCHANGED <<targetName, events, cacheAtStart, pc>>
    /\ UNCHANGED <<files, fixedVars, mtVars, cancelled_, cache, stats, retval, runnerCalls,
                   cmdFailed, sawCancel, written>>

\* loop head: ++current, look the target up, BUILDING callback
ST_Enter ==
    /\ pc[Caller] = "st_loop"
    /\ curIdx < Len(order)
    /\ ~cancelled_
    /\ curIdx' = curIdx + 1
    /\ LET name == order[curIdx + 1] IN
         IF hasTarget(targets_, name)
         THEN /\ targetName' = [targetName EXCEPT ![Caller] = name]
              /\ events' = events \cup {Callback(name, "BUILDING")}
              /\ cacheAtStart' = [cacheAtStart EXCEPT ![name] = cache[name]]
              /\ pc' = [pc EXCEPT ![Caller] = "st_check"]
         ELSE UNCHANGED <<targetName, events, cacheAtStart, pc>>
    /\ UNCHANGED <<files, fixedVars, mtVars, cancelled_, cache, stats, retval, runnerCalls,
                   cmdFailed, sawCancel, written>>

\* the skipped target's signature is stored again
ST_UpToDate_StoresSignature ==
    /\ pc[Caller] = "st_check"
    /\ \E outputsExist \in OutputsExistResults(targetName[Caller]) :
          outputsExist /\ ~isOutOfDate(targetName[Caller], cache)
    /\ written' = written \cup {targetName[Caller]}
    /\ cache' = setSignature(cache, targetName[Caller], TargetSignature(targetName[Caller]))
    /\ events' = events \cup {Printed(targetName[Caller], "UP-TO-DATE"),
                              Callback(targetName[Caller], "UP-TO-DATE")}
    /\ stats' = [stats EXCEPT !.skippedTargets = @ + 1]
    /\ pc' = [pc EXCEPT ![Caller] = "st_loop"]
    /\ UNCHANGED <<files, fixedVars, mtVars, cancelled_, targetName, curIdx, retval,
                   runnerCalls, cmdFailed, cacheAtStart, sawCancel>>

\* all outputs exist and the signature matches: skip
ST_UpToDate ==
    /\ pc[Caller] = "st_check"
    /\ \E outputsExist \in OutputsExistResults(targetName[Caller]) :
          outputsExist /\ ~isOutOfDate(targetName[Caller], cache)
    /\ events' = events \cup {Printed(targetName[Caller], "UP-TO-DATE"),
                              Callback(targetName[Caller], "UP-TO-DATE")}
    /\ stats' = [stats EXCEPT !.skippedTargets = @ + 1]
    /\ pc' = [pc EXCEPT ![Caller] = "st_loop"]
    /\ UNCHANGED <<files, fixedVars, mtVars, cancelled_, cache, targetName, curIdx, retval,
                   runnerCalls, cmdFailed, cacheAtStart, sawCancel, written>>

\* the command is started without the BUILD status
ST_Build_NotAnnounced ==
    /\ pc[Caller] = "st_check"
    /\ \E outputsExist \in OutputsExistResults(targetName[Caller]) :
          ~(outputsExist /\ ~isOutOfDate(targetName[Caller], cache))
    /\ IF RunnerInvoked(config_)
       THEN /\ runnerCalls' = runnerCalls \cup {targetName[Caller]}
            /\ pc' = [pc EXCEPT ![Caller] = "st_running"]
       ELSE /\ pc' = [pc EXCEPT ![Caller] = "st_success"]
            /\ UNCHANGED runnerCalls
    /\ UNCHANGED <<files, fixedVars, mtVars, cancelled_, cache, targetName, curIdx, stats, retval,
                   cmdFailed, cacheAtStart, sawCancel, written, events>>

\* an output is missing or the target is out of date: BUILD, then runCommand starts
ST_Build ==
    /\ pc[Caller] = "st_check"
    /\ \E outputsExist \in OutputsExistResults(targetName[Caller]) :
          ~(outputsExist /\ ~isOutOfDate(targetName[Caller], cache))
    /\ events' = events \cup {Printed(targetName[Caller], "BUILD")}
    /\ IF RunnerInvoked(config_)
       THEN /\ runnerCalls' = runnerCalls \cup {targetName[Caller]}
            /\ pc' = [pc EXCEPT ![Caller] = "st_running"]
       ELSE /\ pc' = [pc EXCEPT ![Caller] = "st_success"]
            /\ UNCHANGED runnerCalls
    /\ UNCHANGED <<files, fixedVars, mtVars, cancelled_, cache, targetName, curIdx, stats, retval,
                   cmdFailed, cacheAtStart, sawCancel, written>>

\* runCommand returned false
\* the loop is left after a failure whatever stop-on-error says
ST_Failure_AlwaysStops ==
    /\ pc[Caller] = "st_failure"
    /\ events' = events \cup {Printed(targetName[Caller], "FAILED"),
                              Callback(targetName[Caller], "FAILED")}
    /\ stats' = [stats EXCEPT !.failedTargets = @ + 1]
    /\ retval' = FALSE
    /\ pc' = [pc EXCEPT ![Caller] = "done"]
    /\ UNCHANGED <<files, fixedVars, mtVars, cancelled_, cache, targetName, curIdx, runnerCalls,
                   cmdFailed, cacheAtStart, sawCancel, written>>

ST_Failure ==
    /\ pc[Caller] = "st_failure"
    /\ events' = events \cup {Printed(targetName[Caller], "FAILED"),
                              Callback(targetName[Caller], "FAILED")}
    /\ stats' = [stats EXCEPT !.failedTargets = @ + 1]
    /\ IF config_.stopOnError
       THEN /\ retval' = FALSE
            /\ pc' = [pc EXCEPT ![Caller] = "done"]
       ELSE /\ pc' = [pc EXCEPT ![Caller] = "st_loop"]
            /\ UNCHANGED retval
    /\ UNCHANGED <<files, fixedVars, mtVars, cancelled_, cache, targetName, curIdx, runnerCalls,
                   cmdFailed, cacheAtStart, sawCancel, written>>

\* runCommand returned true: store the fresh signature, SUCCESS
ST_Success ==
    /\ pc[Caller] = "st_success"
    /\ written' = written \cup {targetName[Caller]}
    /\ cache' = setSignature(cache, targetName[Caller], TargetSignature(targetName[Caller]))
    /\ events' = events \cup {Printed(targetName[Caller], "SUCCESS"),
                              Callback(targetName[Caller], "SUCCESS")}
    /\ stats' = [stats EXCEPT !.builtTargets = @ + 1]
    /\ pc' = [pc EXCEPT ![Caller] = "st_loop"]
    /\ UNCHANGED <<files, fixedVars, mtVars, cancelled_, targetName, curIdx, retval, runnerCalls,
                   cmdFailed, cacheAtStart, sawCancel>>

\* the runner's verdict is ignored: the caller goes on as after a success
CommandReturns_VerdictIgnored(th, running, success, failure) ==
    /\ pc[th] = running
    /\ \E ok \in BOOLEAN :
          /\ pc' = [pc EXCEPT ![th] = success]
          /\ cmdFailed' = IF ok THEN cmdFailed ELSE cmdFailed \cup {targetName[th]}
    /\ UNCHANGED <<files, fixedVars, mtVars, cancelled_, cache, targetName, curIdx, stats, events,
                   retval, runnerCalls, cacheAtStart, sawCancel, written>>

\* CommandRunner::runSimple returns on thread th: success or failure, as the command decides
CommandReturns(th, running, success, failure) ==
    /\ pc[th] = running
    /\ \E ok \in BOOLEAN :
          /\ pc' = [pc EXCEPT ![th] = IF ok THEN success ELSE failure]
          /\ cmdFailed' = IF ok THEN cmdFailed ELSE cmdFailed \cup {targetName[th]}
          \* a command that succeeds leaves its declared outputs in place
          /\ files' = IF ok /\ files.observed
                       THEN [files EXCEPT !.outputs[targetName[th]] = TRUE]
                       ELSE files
    /\ UNCHANGED <<fixedVars, mtVars, cancelled_, cache, targetName, curIdx, stats, events,
                   retval, runnerCalls, cacheAtStart, sawCancel, written>>

ST_CommandReturns == CommandReturns(Caller, "st_running", "st_success", "st_failure")

\* ---- Executor::executeMultiThreaded ----
\* the failed latch is left out of the wait predicate and of the check after it
StopRequested_CancelOnly == cancelled_

StopRequested == cancelled_ \/ (failed /\ config_.stopOnError)
AllDone == \A n \in DOMAIN completed : completed[n]
\* readiness that looks only at the target itself
canExecute_IgnoresDependencies(name) == ~inProgress[name]

\* the canExecute lambda: every dependency completed and the target not in progress
canExecute(name) ==
    /\ \A dep \in Range(getDependencies(targets_, name)) :
          dep \in DOMAIN completed /\ completed[dep]
    /\ ~inProgress[name]
Ready(name) == hasTarget(targets_, name) /\ ~completed[name] /\ canExecute(name)
SomeReady == \E i \in 1..Len(order) : Ready(order[i])
\* the first ready target in the topological order
FirstReady == order[CHOOSE i \in 1..Len(order) :
                        Ready(order[i]) /\ \A j \in 1..(i - 1) : ~Ready(order[j])]
\* the predicate of cv.wait
WaitPredicate == StopRequested \/ AllDone \/ SomeReady

\* the notification is left out
NotifyAll_Missing(p) == p

\* cv.notify_all: every waiting worker goes on to re-evaluate the predicate
NotifyAll(p) == [th \in DOMAIN p |-> IF p[th] = "waiting" THEN "lock" ELSE p[th]]

\* top of the worker loop: return if cancelled, else go for the lock
W_LoopTop(w) ==
    /\ pc[w] = "top"
    /\ pc' = [pc EXCEPT ![w] = IF cancelled_ THEN "returned" ELSE "lock"]
    /\ sawCancel' = (sawCancel \/ cancelled_)
    /\ targetName' = [targetName EXCEPT ![w] = ""]
    /\ UNCHANGED <<files, fixedVars, mtVars, cancelled_, cache, curIdx, stats, events, retval,
                   runnerCalls, cmdFailed, cacheAtStart, written>>

\* under the lock: the wait predicate is false, block on the condition variable
W_Wait(w) ==
    /\ pc[w] = "lock"
    /\ ~WaitPredicate
    /\ pc' = [pc EXCEPT ![w] = "waiting"]
    /\ UNCHANGED <<files, fixedVars, mtVars, cancelled_, cache, targetName, curIdx, stats, events,
                   retval, runnerCalls, cmdFailed, cacheAtStart, sawCancel, written>>

\* a blocked worker wakes without a notification
W_SpuriousWake(w) ==
    /\ pc[w] = "waiting"
    /\ pc' = [pc EXCEPT ![w] = "lock"]
    /\ UNCHANGED <<files, fixedVars, mtVars, cancelled_, cache, targetName, curIdx, stats, events,
                   retval, runnerCalls, cmdFailed, cacheAtStart, sawCancel, written>>

\* under the lock, after the wait: cancelled, or failed with stop-on-error: return
W_Stop(w) ==
    /\ pc[w] = "lock"
    /\ StopRequested
    /\ pc' = [pc EXCEPT ![w] = "returned"]
    /\ sawCancel' = (sawCancel \/ cancelled_)
    /\ UNCHANGED <<files, fixedVars, mtVars, cancelled_, cache, targetName, curIdx, stats, events,
                   retval, runnerCalls, cmdFailed, cacheAtStart, written>>

\* under the lock, after the wait: every target completed: return
W_AllDone(w) ==
    /\ pc[w] = "lock"
    /\ ~StopRequested
    /\ AllDone
    /\ pc' = [pc EXCEPT ![w] = "returned"]
    /\ UNCHANGED <<files, fixedVars, mtVars, cancelled_, cache, targetName, curIdx, stats, events,
                   retval, runnerCalls, cmdFailed, cacheAtStart, sawCancel, written>>

\* the target taken is not marked in progress
W_Pick_NotMarked(w) ==
    /\ pc[w] = "lock"
    /\ ~StopRequested
    /\ ~AllDone
    /\ SomeReady
    /\ targetName' = [targetName EXCEPT ![w] = FirstReady]
    /\ cacheAtStart' = [cacheAtStart EXCEPT ![FirstReady] = cache[FirstReady]]
    /\ pc' = [pc EXCEPT ![w] = "picked"]
    /\ UNCHANGED <<files, fixedVars, completed, inProgress, failed, processedCount, cancelled_,
                   cache, curIdx, stats, events, retval, runnerCalls, cmdFailed, sawCancel,
                   written>>

\* under the lock, after the wait: take the first ready target and mark it in progress
W_Pick(w) ==
    /\ pc[w] = "lock"
    /\ ~StopRequested
    /\ ~AllDone
    /\ SomeReady
    /\ targetName' = [targetName EXCEPT ![w] = FirstReady]
    /\ inProgress' = [inProgress EXCEPT ![FirstReady] = TRUE]
    /\ cacheAtStart' = [cacheAtStart EXCEPT ![FirstReady] = cache[FirstReady]]
    /\ pc' = [pc EXCEPT ![w] = "picked"]
    /\ UNCHANGED <<files, fixedVars, completed, failed, processedCount, cancelled_, cache, curIdx,
                   stats, events, retval, runnerCalls, cmdFailed, sawCancel, written>>

\* outside the lock: ++processedCount, BUILDING callback
W_Enter(w) ==
    /\ pc[w] = "picked"
    /\ processedCount' = processedCount + 1
    /\ events' = events \cup {Callback(targetName[w], "BUILDING")}
    /\ pc' = [pc EXCEPT ![w] = "check"]
    /\ UNCHANGED <<files, fixedVars, completed, inProgress, failed, cancelled_, cache, targetName,
                   curIdx, stats, retval, runnerCalls, cmdFailed, cacheAtStart, sawCancel,
                   written>>

\* the skipped target is not counted in the statistics
W_UpToDate_NotCounted(w) ==
    /\ pc[w] = "check"
    /\ \E outputsExist \in OutputsExistResults(targetName[w]) :
          outputsExist /\ ~isOutOfDate(targetName[w], cache)
    /\ events' = events \cup {Printed(targetName[w], "UP-TO-DATE")}
    /\ pc' = [pc EXCEPT ![w] = "finish_ok"]
    /\ UNCHANGED <<files, fixedVars, mtVars, cancelled_, cache, targetName, curIdx, retval, stats,
                   runnerCalls, cmdFailed, cacheAtStart, sawCancel, written>>

\* outside the lock: all outputs exist and the signature matches: skip
W_UpToDate(w) ==
    /\ pc[w] = "check"
    /\ \E outputsExist \in OutputsExistResults(targetName[w]) :
          outputsExist /\ ~isOutOfDate(targetName[w], cache)
    /\ events' = events \cup {Printed(targetName[w], "UP-TO-DATE")}
    /\ stats' = [stats EXCEPT !.skippedTargets = @ + 1]
    /\ pc' = [pc EXCEPT ![w] = "finish_ok"]
    /\ UNCHANGED <<files, fixedVars, mtVars, cancelled_, cache, targetName, curIdx, retval,
                   runnerCalls, cmdFailed, cacheAtStart, sawCancel, written>>

W_Build(w) ==
    /\ pc[w] = "check"
    /\ \E outputsExist \in OutputsExistResults(targetName[w]) :
          ~(outputsExist /\ ~isOutOfDate(targetName[w], cache))
    /\ events' = events \cup {Printed(targetName[w], "BUILD")}
    /\ IF RunnerInvoked(config_)
       THEN /\ runnerCalls' = runnerCalls \cup {targetName[w]}
            /\ pc' = [pc EXCEPT ![w] = "running"]
       ELSE /\ pc' = [pc EXCEPT ![w] = "success"]
            /\ UNCHANGED runnerCalls
    /\ UNCHANGED <<files, fixedVars, mtVars, cancelled_, cache, targetName, curIdx, stats, retval,
                   cmdFailed, cacheAtStart, sawCancel, written>>

W_CommandReturns(w) == CommandReturns(w, "running", "success", "failure")

W_Success(w) ==
    /\ pc[w] = "success"
    /\ written' = written \cup {targetName[w]}
    /\ cache' = setSignature(cache, targetName[w], TargetSignature(targetName[w]))
    /\ events' = events \cup {Printed(targetName[w], "SUCCESS")}
    /\ stats' = [stats EXCEPT !.builtTargets = @ + 1]
    /\ pc' = [pc EXCEPT ![w] = "finish_ok"]
    /\ UNCHANGED <<files, fixedVars, mtVars, cancelled_, targetName, curIdx, retval, runnerCalls,
                   cmdFailed, cacheAtStart, sawCancel>>

W_Failure(w) ==
    /\ pc[w] = "failure"
    /\ events' = events \cup {Printed(targetName[w], "FAILED")}
    /\ stats' = [stats EXCEPT !.failedTargets = @ + 1]
    /\ pc' = [pc EXCEPT ![w] = "finish_failed"]
    /\ UNCHANGED <<files, fixedVars, mtVars, cancelled_, cache, targetName, curIdx, retval,
                   runnerCalls, cmdFailed, cacheAtStart, sawCancel, written>>

\* the failed latch is never set
W_Complete_NoLatch(w) ==
    /\ pc[w] \in {"finish_ok", "finish_failed"}
    /\ inProgress' = [inProgress EXCEPT ![targetName[w]] = FALSE]
    /\ completed' = [completed EXCEPT ![targetName[w]] = TRUE]
    /\ pc' = [pc EXCEPT ![w] = "notify"]
    /\ UNCHANGED <<files, fixedVars, processedCount, cancelled_, cache, targetName, curIdx, stats,
                   events, retval, runnerCalls, cmdFailed, cacheAtStart, sawCancel, written,
                   failed>>

\* under the lock: the target is no longer in progress, it is completed; latch failed
W_Complete(w) ==
    /\ pc[w] \in {"finish_ok", "finish_failed"}
    /\ inProgress' = [inProgress EXCEPT ![targetName[w]] = FALSE]
    /\ completed' = [completed EXCEPT ![targetName[w]] = TRUE]
    /\ failed' = (failed \/ pc[w] = "finish_failed")
    /\ pc' = [pc EXCEPT ![w] = "notify"]
    /\ UNCHANGED <<files, fixedVars, processedCount, cancelled_, cache, targetName, curIdx, stats,
                   events, retval, runnerCalls, cmdFailed, cacheAtStart, sawCancel, written>>

W_NotifyAll(w) ==
    /\ pc[w] = "notify"
    /\ pc' = [NotifyAll(pc) EXCEPT ![w] = "top"]
    /\ UNCHANGED <<files, fixedVars, mtVars, cancelled_, cache, targetName, curIdx, stats, events,
                   retval, runnerCalls, cmdFailed, cacheAtStart, sawCancel, written>>

\* the failed latch is not looked at
Join_ReturnsTrue ==
    /\ pc[Caller] = "join"
    /\ \A w \in Workers : pc[w] = "returned"
    /\ retval' = TRUE
    /\ pc' = [pc EXCEPT ![Caller] = "done"]
    /\ UNCHANGED <<files, fixedVars, mtVars, cancelled_, cache, targetName, curIdx, stats, events,
                   runnerCalls, cmdFailed, cacheAtStart, sawCancel, written>>

\* every worker joined: return !failed
Join ==
    /\ pc[Caller] = "join"
    /\ \A w \in Workers : pc[w] = "returned"
    /\ retval' = ~failed
    /\ pc' = [pc EXCEPT ![Caller] = "done"]
    /\ UNCHANGED <<files, fixedVars, mtVars, cancelled_, cache, targetName, curIdx, stats, events,
                   runnerCalls, cmdFailed, cacheAtStart, sawCancel, written>>

\* ---- Executor::executeTarget ----
ExecuteTarget ==
    /\ call = "none"
    /\ call' = "executeTarget"
    /\ \E name \in DOMAIN targets_ :
          /\ targetName' = [targetName EXCEPT ![Caller] = name]
          /\ cacheAtStart' = [cacheAtStart EXCEPT ![name] = cache[name]]
    /\ IF cancelled_
       THEN /\ retval' = FALSE
            /\ sawCancel' = TRUE
            /\ pc' = [pc EXCEPT ![Caller] = "done"]
       ELSE /\ pc' = [pc EXCEPT ![Caller] = "et_check"]
            /\ UNCHANGED <<retval, sawCancel>>
    /\ UNCHANGED <<targets_, dagOp, dagRet, config_, order, mtVars, cancelled_, cache, curIdx,
                   stats, events, runnerCalls, cmdFailed, written, files, runs, storeVars>>

ET_UpToDate ==
    /\ pc[Caller] = "et_check"
    /\ \E outputsExist \in OutputsExistResults(targetName[Caller]) :
          outputsExist /\ ~isOutOfDate(targetName[Caller], cache)
    /\ events' = events \cup {Printed(targetName[Caller], "UP-TO-DATE")}
    /\ retval' = TRUE
    /\ pc' = [pc EXCEPT ![Caller] = "done"]
    /\ UNCHANGED <<files, fixedVars, mtVars, cancelled_, cache, targetName, curIdx, stats,
                   runnerCalls, cmdFailed, cacheAtStart, sawCancel, written>>

ET_Build ==
    /\ pc[Caller] = "et_check"
    /\ \E outputsExist \in OutputsExistResults(targetName[Caller]) :
          ~(outputsExist /\ ~isOutOfDate(targetName[Caller], cache))
    /\ events' = events \cup {Printed(targetName[Caller], "BUILD")}
    /\ IF RunnerInvoked(config_)
       THEN /\ runnerCalls' = runnerCalls \cup {targetName[Caller]}
            /\ pc' = [pc EXCEPT ![Caller] = "et_running"]
       ELSE /\ pc' = [pc EXCEPT ![Caller] = "et_success"]
            /\ UNCHANGED runnerCalls
    /\ UNCHANGED <<files, fixedVars, mtVars, cancelled_, cache, targetName, curIdx, stats, retval,
                   cmdFailed, cacheAtStart, sawCancel, written>>

ET_CommandReturns == CommandReturns(Caller, "et_running", "et_success", "et_failure")

ET_Failure ==
    /\ pc[Caller] = "et_failure"
    /\ events' = events \cup {Printed(targetName[Caller], "FAILED")}
    /\ retval' = FALSE
    /\ pc' = [pc EXCEPT ![Caller] = "done"]
    /\ UNCHANGED <<files, fixedVars, mtVars, cancelled_, cache, targetName, curIdx, stats,
                   runnerCalls, cmdFailed, cacheAtStart, sawCancel, written>>

ET_Success ==
    /\ pc[Caller] = "et_success"
    /\ written' = written \cup {targetName[Caller]}
    /\ cache' = setSignature(cache, targetName[Caller], TargetSignature(targetName[Caller]))
    /\ events' = events \cup {Printed(targetName[Caller], "SUCCESS")}
    /\ retval' = TRUE
    /\ pc' = [pc EXCEPT ![Caller] = "done"]
    /\ UNCHANGED <<files, fixedVars, mtVars, cancelled_, targetName, curIdx, stats, runnerCalls,
                   cmdFailed, cacheAtStart, sawCancel>>

WorkerStep(w) ==
    \/ W_LoopTop(w) \/ W_Wait(w) \/ W_Stop(w) \/ W_AllDone(w) \/ W_Pick(w)
    \/ W_Enter(w) \/ W_UpToDate(w) \/ W_Build(w) \/ W_CommandReturns(w)
    \/ W_Success(w) \/ W_Failure(w) \/ W_Complete(w) \/ W_NotifyAll(w)

SingleThreadedStep ==
    \/ ST_Return \/ ST_Cancelled \/ ST_Enter \/ ST_UpToDate \/ ST_Build
    \/ ST_CommandReturns \/ ST_Failure \/ ST_Success

ExecuteTargetStep ==
    \/ ExecuteTarget \/ ET_UpToDate \/ ET_Build \/ ET_CommandReturns \/ ET_Failure \/ ET_Success

MultiThreadedStep == \E w \in Workers : WorkerStep(w)
SpuriousWake == \E w \in Workers : W_SpuriousWake(w)

Next ==
    \/ Cancel
    \/ Execute
    \/ SingleThreadedStep
    \/ MultiThreadedStep
    \/ SpuriousWake
    \/ Join
    \/ ExecuteTargetStep

Spec == Init /\ [][Next]_vars

(***************************************************************************)
(* Executions one after the other on the same cache, with the files the    *)
(* executor reads made explicit: each target has one declared input and    *)
(* one declared output                                                     *)
(***************************************************************************)
MaxRuns == 2         \* executions in succession

\* at most two targets
RunDags == {T \in ExecDags : size(T) <= 2}

InitRuns ==
    /\ targets_ \in RunDags
    /\ dagOp = "none"
    /\ dagRet = <<>>
    /\ config_ \in Configs
    /\ cancelled_ = FALSE
    /\ cache = [n \in ExecNames |-> NoEntry]
    /\ call = "none"
    /\ order = <<>>
    /\ pc = [th \in Threads |-> "idle"]
    /\ targetName = [th \in Threads |-> ""]
    /\ curIdx = 0
    /\ completed = <<>>
    /\ inProgress = <<>>
    /\ failed = FALSE
    /\ processedCount = 0
    /\ stats = [totalTargets |-> 0, builtTargets |-> 0, skippedTargets |-> 0, failedTargets |-> 0]
    /\ events = {}
    /\ retval = FALSE
    /\ runnerCalls = {}
    /\ cmdFailed = {}
    /\ cacheAtStart = [n \in ExecNames |-> NoEntry]
    /\ written = {}
    /\ sawCancel = FALSE
    /\ files = [observed |-> TRUE,
                inputs |-> [n \in DOMAIN targets_ |-> File(<<0, 0, 1, 128>>)],
                outputs |-> [n \in DOMAIN targets_ |-> FALSE]]
    /\ runs = FirstRun
    /\ StoreIdle
    /\ SignatureIdle

\* the call returned; a new Executor with the same configuration and a new
\* BuildStats are made for the next call, the DAG, the cache and the files stay.
\* Only an execution that cancel() did not reach is followed by another one.
NextRun ==
    /\ pc[Caller] = "done"
    /\ ~cancelled_
    /\ files.observed
    /\ runs.count < MaxRuns
    /\ runs' = [count |-> runs.count + 1,
                earlier |-> Append(runs.earlier,
                                   [call |-> call, retval |-> retval, stats |-> stats,
                                    written |-> written, cmdFailed |-> cmdFailed,
                                    cancelled |-> cancelled_,
                                    inputs |-> files.inputs, outputs |-> files.outputs]),
                modified |-> {}, removed |-> {}, reloaded |-> FALSE]
    /\ cancelled_' = FALSE
    /\ call' = "none"
    /\ order' = <<>>
    /\ pc' = [th \in Threads |-> "idle"]
    /\ targetName' = [th \in Threads |-> ""]
    /\ curIdx' = 0
    /\ completed' = <<>>
    /\ inProgress' = <<>>
    /\ failed' = FALSE
    /\ processedCount' = 0
    /\ stats' = [totalTargets |-> 0, builtTargets |-> 0, skippedTargets |-> 0, failedTargets |-> 0]
    /\ events' = {}
    /\ retval' = FALSE
    /\ runnerCalls' = {}
    /\ cmdFailed' = {}
    /\ cacheAtStart' = [n \in ExecNames |-> NoEntry]
    /\ written' = {}
    /\ sawCancel' = FALSE
    /\ UNCHANGED <<targets_, dagOp, dagRet, config_, cache, files, storeVars>>

BetweenRuns == call = "none" /\ files.observed /\ runs.count > 1
runFrame == <<targets_, dagOp, dagRet, config_, cancelled_, call, order, pc, targetName, curIdx,
              completed, inProgress, failed, processedCount, stats, events, retval,
              runnerCalls, cmdFailed, cacheAtStart, written, sawCancel>>

\* between two executions the declared input of one target gets another state
ModifyInput ==
    /\ BetweenRuns
    /\ runs.modified = {}
    /\ \E n \in DOMAIN targets_, f \in InputFiles :
          /\ f # files.inputs[n]
          /\ files' = [files EXCEPT !.inputs[n] = f]
          /\ runs' = [runs EXCEPT !.modified = {n}]
    /\ UNCHANGED <<runFrame, cache, storeVars>>

\* between two executions the declared output of a target is deleted
RemoveOutput ==
    /\ BetweenRuns
    /\ \E n \in DOMAIN targets_ :
          /\ files.outputs[n]
          /\ files' = [files EXCEPT !.outputs[n] = FALSE]
          /\ runs' = [runs EXCEPT !.removed = @ \cup {n}]
    /\ UNCHANGED <<runFrame, cache, storeVars>>

\* the names and signatures of the executor's cache as the Cache holds them
StoreOf(c) == [k \in {<<n>> : n \in DOMAIN c} |-> c[k[1]]]

\* between two executions: cache.save(), then a new Cache over the same directory and load()
SaveAndReload ==
    /\ BetweenRuns
    /\ ~runs.reloaded
    /\ \E it \in Perms(Entries(StoreOf(cache))) :
          LET file == save(StoreOf(cache), it)
              loaded == loadLines(file, 1, [k \in DOMAIN StoreOf(cache) |-> NoEntry])
          IN  /\ cacheFile' = file
              /\ cache' = [n \in DOMAIN cache |-> loaded[<<n>>]]
    /\ runs' = [runs EXCEPT !.reloaded = TRUE]
    /\ UNCHANGED <<runFrame, files, mutex_, client, cacheOp, cacheRet, history, sigVars>>

NextRuns ==
    \/ Cancel
    \/ Execute
    \/ SingleThreadedStep
    \/ MultiThreadedStep
    \/ SpuriousWake
    \/ Join
    \/ ExecuteTargetStep
    \/ NextRun
    \/ ModifyInput
    \/ RemoveOutput
    \/ SaveAndReload

SpecRuns == InitRuns /\ [][NextRuns]_vars

(***************************************************************************)
(* Executions in succession over inputs that are rewritten while a command *)
(* runs, or are not there                                                  *)
(***************************************************************************)
\* the declared input of a target is there or not; commands are run, and a
\* failure does not stop the others
InitLive ==
    /\ targets_ \in RunDags
    /\ dagOp = "none"
    /\ dagRet = <<>>
    /\ config_ \in {c \in Configs : ~c.dryRun /\ ~c.stopOnError}
    /\ cancelled_ = FALSE
    /\ cache = [n \in ExecNames |-> NoEntry]
    /\ call = "none"
    /\ order = <<>>
    /\ pc = [th \in Threads |-> "idle"]
    /\ targetName = [th \in Threads |-> ""]
    /\ curIdx = 0
    /\ completed = <<>>
    /\ inProgress = <<>>
    /\ failed = FALSE
    /\ processedCount = 0
    /\ stats = [totalTargets |-> 0, builtTargets |-> 0, skippedTargets |-> 0, failedTargets |-> 0]
    /\ events = {}
    /\ retval = FALSE
    /\ runnerCalls = {}
    /\ cmdFailed = {}
    /\ cacheAtStart = [n \in ExecNames |-> NoEntry]
    /\ written = {}
    /\ sawCancel = FALSE
    /\ files \in [observed : {TRUE},
                  inputs : [DOMAIN targets_ -> {File(<<0, 0, 1, 128>>), MissingFile}],
                  outputs : {[n \in DOMAIN targets_ |-> FALSE]}]
    /\ runs = [count |-> 1, earlier |-> <<>>, edited |-> <<>>]
    /\ StoreIdle
    /\ SignatureIdle

\* the threads whose command is running, with the runner
CommandRunning(th) == pc[th] \in {"st_running", "running", "et_running"}

\* while the command of a target runs, the target's declared input is
\* rewritten, created or deleted (by the command or by anyone else); once
\* in an execution that another one follows, and the state the input had
\* when the command started is kept
EditInput ==
    /\ files.observed
    /\ "edited" \in DOMAIN runs
    /\ runs.count < MaxRuns
    /\ runs.edited = <<>>
    /\ \E th \in Threads, f \in InputFiles :
          /\ CommandRunning(th)
          /\ f # files.inputs[targetName[th]]
          /\ files' = [files EXCEPT !.inputs[targetName[th]] = f]
          /\ runs' = [runs EXCEPT !.edited = <<[target |-> targetName[th],
                                                 before |-> files.inputs[targetName[th]]]>>]
    /\ UNCHANGED <<runFrame, cache, storeVars>>

\* the call returned without cancel(); a new Executor with the same
\* configuration makes the next call, the DAG, the cache and the files stay
RunAgain ==
    /\ pc[Caller] = "done"
    /\ ~cancelled_
    /\ files.observed
    /\ "edited" \in DOMAIN runs
    /\ runs.count < MaxRuns
    /\ runs' = [count |-> runs.count + 1,
                earlier |-> Append(runs.earlier,
                                   [call |-> call, written |-> written,
                                    edited |-> runs.edited, inputs |-> files.inputs]),
                edited |-> <<>>]
    /\ call' = "none"
    /\ order' = <<>>
    /\ pc' = [th \in Threads |-> "idle"]
    /\ targetName' = [th \in Threads |-> ""]
    /\ curIdx' = 0
    /\ completed' = <<>>
    /\ inProgress' = <<>>
    /\ failed' = FALSE
    /\ processedCount' = 0
    /\ stats' = [totalTargets |-> 0, builtTargets |-> 0, skippedTargets |-> 0, failedTargets |-> 0]
    /\ events' = {}
    /\ retval' = FALSE
    /\ runnerCalls' = {}
    /\ cmdFailed' = {}
    /\ cacheAtStart' = [n \in ExecNames |-> NoEntry]
    /\ written' = {}
    /\ sawCancel' = FALSE
    /\ UNCHANGED <<targets_, dagOp, dagRet, config_, cancelled_, cache, files, storeVars>>

NextLive ==
    \/ Cancel
    \/ Execute
    \/ SingleThreadedStep
    \/ MultiThreadedStep
    \/ SpuriousWake
    \/ Join
    \/ ExecuteTargetStep
    \/ EditInput
    \/ RunAgain

SpecLive == InitLive /\ [][NextLive]_vars

(***************************************************************************)
(* One graph executed with J = 1 and then, from the same cache and files,  *)
(* with J > 1                                                              *)
(***************************************************************************)
\* the graphs of at most MaxTargets targets; those of MaxTargets targets have
\* a dependency for every target but one
BothDags ==
    {T \in ExecDags :
        /\ size(T) <= MaxTargets
        /\ size(T) = MaxTargets =>
              Cardinality({n \in DOMAIN T : getDependencies(T, n) = <<>>}) = 1}
\* before the executions the outputs of all targets are there, or those of
\* all targets but one, or those of none
OutputsBefore(T) ==
    {[n \in DOMAIN T |-> n \notin S] : S \in {{}, DOMAIN T} \cup {{m} : m \in DOMAIN T}}

\* the cache before the executions: empty, or holding for every target the
\* signature of its input as it is, or holding for every target an older one
CachesOver(T) ==
    {[n \in ExecNames |->
         IF n \notin DOMAIN T \/ kind = "empty" THEN NoEntry
         ELSE IF kind = "current" THEN TargetSignature(n)
         ELSE StaleSignature(n)] : kind \in {"empty", "current", "stale"}}

\* the first execution is the single-threaded one; what it ended with is kept
\* for the comparison, and so are the cache and the files it began with
InitBoth ==
    /\ targets_ \in BothDags
    /\ dagOp = "none"
    /\ dagRet = <<>>
    /\ config_ \in {c \in Configs : c.numThreads = 1 /\ ~c.stopOnError}
    /\ cancelled_ = FALSE
    /\ files \in [observed : {TRUE},
                  inputs : {[n \in DOMAIN targets_ |-> File(<<0, 0, 1, 128>>)]},
                  outputs : OutputsBefore(targets_)]
    /\ cache \in CachesOver(targets_)
    /\ call = "none"
    /\ order = <<>>
    /\ pc = [th \in Threads |-> "idle"]
    /\ targetName = [th \in Threads |-> ""]
    /\ curIdx = 0
    /\ completed = <<>>
    /\ inProgress = <<>>
    /\ failed = FALSE
    /\ processedCount = 0
    /\ stats = [totalTargets |-> 0, builtTargets |-> 0, skippedTargets |-> 0, failedTargets |-> 0]
    /\ events = {}
    /\ retval = FALSE
    /\ runnerCalls = {}
    /\ cmdFailed = {}
    /\ cacheAtStart = [n \in ExecNames |-> NoEntry]
    /\ written = {}
    /\ sawCancel = FALSE
    /\ runs = [count |-> 1, cache |-> cache, files |-> files, single |-> <<>>]
    /\ StoreIdle
    /\ SignatureIdle

\* the single-threaded execution returned without cancel(): an Executor with
\* J > 1 and the same options executes the same DAG, the cache and the files
\* being as they were before the first execution
RunMultiThreaded ==
    /\ pc[Caller] = "done"
    /\ ~cancelled_
    /\ files.observed
    /\ runs.count = 1
    /\ "single" \in DOMAIN runs
    /\ runs' = [runs EXCEPT !.count = 2,
                            !.single = [retval |-> retval, cache |-> cache,
                                        statuses |->
                                            {e \in events : e[1] = "print" /\ e[3] # "BUILD"},
                                        runnerCalls |-> runnerCalls, cmdFailed |-> cmdFailed]]
    /\ \E J \in 2..MaxWorkers : config_' = [config_ EXCEPT !.numThreads = J]
    /\ cache' = runs.cache
    /\ files' = runs.files
    /\ cancelled_' = FALSE
    /\ call' = "none"
    /\ order' = <<>>
    /\ pc' = [th \in Threads |-> "idle"]
    /\ targetName' = [th \in Threads |-> ""]
    /\ curIdx' = 0
    /\ completed' = <<>>
    /\ inProgress' = <<>>
    /\ failed' = FALSE
    /\ processedCount' = 0
    /\ stats' = [totalTargets |-> 0, builtTargets |-> 0, skippedTargets |-> 0, failedTargets |-> 0]
    /\ events' = {}
    /\ retval' = FALSE
    /\ runnerCalls' = {}
    /\ cmdFailed' = {}
    /\ cacheAtStart' = [n \in ExecNames |-> NoEntry]
    /\ written' = {}
    /\ sawCancel' = FALSE
    /\ UNCHANGED <<targets_, dagOp, dagRet, storeVars>>

NextBoth ==
    \/ Cancel
    \/ Execute
    \/ SingleThreadedStep
    \/ MultiThreadedStep
    \/ SpuriousWake
    \/ Join
    \/ RunMultiThreaded

SpecBoth == InitBoth /\ [][NextBoth]_vars

(***************************************************************************)
(* Graph notions the claims are stated with                                *)
(***************************************************************************)
\* x depends-on y is a declared edge
Edge(T, x, y) == hasTarget(T, x) /\ y \in Range(getDependencies(T, x))

RECURSIVE ReachIn(_, _, _)
\* the names reachable from the set S by one or more declared edges, in at most n rounds
ReachIn(T, S, n) ==
    LET next == {y \in AllNames : \E x \in S : Edge(T, x, y)} IN
    IF n = 0 THEN {} ELSE next \cup ReachIn(T, next, n - 1)

HasDirectedCycle(T) == \E x \in DOMAIN T : x \in ReachIn(T, {x}, size(T))
DependencyClosed(T) == \A x \in DOMAIN T : Range(getDependencies(T, x)) \subseteq DOMAIN T
DependenciesFirst(T, s) ==
    \A i \in 1..Len(s) : \A d \in Range(getDependencies(T, s[i])) :
        \E j \in 1..(i - 1) : s[j] = d
IsPermutationOf(s, S) == Len(s) = Cardinality(S) /\ Range(s) = S

SeqToBag(s) == [x \in Range(s) |-> Cardinality({i \in 1..Len(s) : s[i] = x})]
\* the (target, dependency-list position) references to an unregistered name
MissingRefs(T) ==
    {r \in (DOMAIN T) \X (1..MaxDeps) :
        r[2] <= Len(getDependencies(T, r[1])) /\ ~hasTarget(T, getDependencies(T, r[1])[r[2]])}
RefName(T, r) == getDependencies(T, r[1])[r[2]]
MissingRefBag(T) ==
    [m \in {RefName(T, r) : r \in MissingRefs(T)} |->
        Cardinality({r \in MissingRefs(T) : RefName(T, r) = m})]
Chain == [n \in {"A", "B", "C"} |->
            Target(IF n = "A" THEN <<>> ELSE IF n = "B" THEN <<"A">> ELSE <<"B">>)]

(***************************************************************************)
(* Claims about the graph queries (checked under SpecDag)                  *)
(***************************************************************************)

\* C3: for every graph without a cycle (stated here for the dependency-closed
\* ones), topologicalSort returns every registered target exactly once, each
\* dependency before its dependent; the chain A, B->{A}, C->{B} gives [A, B, C].
C3_TopologicalSortIsPermutation ==
    (dagOp = "topologicalSort" /\ ~HasDirectedCycle(targets_) /\ DependencyClosed(targets_))
        => /\ IsPermutationOf(dagRet, DOMAIN targets_)
           /\ DependenciesFirst(targets_, dagRet)
           /\ (targets_ = Chain => dagRet = <<"A", "B", "C">>)

\* C4: detectCyclesWithPath reports a cycle iff the declared edges contain a
\* directed cycle; the reported path is non-empty, closed (first = last) and
\* follows declared edges; without a cycle the path is empty.
C4_CycleDetectionSound ==
    dagOp = "detectCyclesWithPath"
        => /\ dagRet.hasCycle <=> HasDirectedCycle(targets_)
           /\ dagRet.hasCycle =>
                 /\ dagRet.cycleNodes # <<>>
                 /\ dagRet.cycleNodes[1] = dagRet.cycleNodes[Len(dagRet.cycleNodes)]
                 /\ \A i \in 1..(Len(dagRet.cycleNodes) - 1) :
                        Edge(targets_, dagRet.cycleNodes[i], dagRet.cycleNodes[i + 1])
           /\ ~dagRet.hasCycle => dagRet.cycleNodes = <<>>

\* a cycle through two targets was reported on a graph that also has a
\* target reached twice without a cycle through it
C4_Witness ==
    /\ dagOp = "detectCyclesWithPath"
    /\ dagRet.hasCycle
    /\ Len(dagRet.cycleNodes) = 3
    /\ size(targets_) = 3

\* C5: validateDependencies returns, as a multiset, one occurrence of dep per
\* (target, position) reference to an unregistered dep and nothing else; the
\* result is empty iff every referenced dependency is registered.
C5_ValidationExact ==
    dagOp = "validateDependencies"
        => /\ SeqToBag(dagRet) = MissingRefBag(targets_)
           /\ dagRet = <<>> <=> DependencyClosed(targets_)

\* one target names the same unregistered dependency twice, another once
C5_Witness ==
    /\ dagOp = "validateDependencies"
    /\ Len(dagRet) = 3
    /\ \E m \in AllNames : Range(dagRet) = {m}

(***************************************************************************)
(* Executor with fair scheduling: every worker thread keeps running, every *)
(* command returns, the caller gets to join; cancel() may never be called  *)
(***************************************************************************)
\* more than one worker; the cache holds the present signature of every target,
\* so that each target may be skipped (outputs present) or built (an output missing)
InitMT ==
    /\ Init
    /\ config_.numThreads > 1
    /\ \A n \in DOMAIN targets_ : cache[n] = TargetSignature(n)
NextMT == Cancel \/ Execute \/ MultiThreadedStep \/ SpuriousWake \/ Join

FairSpec ==
    /\ InitMT
    /\ [][NextMT]_vars
    /\ \A w \in 1..MaxWorkers : WF_vars(w \in Workers /\ WorkerStep(w))
    /\ WF_vars(Join)

(***************************************************************************)
(* Claims about the executor (checked under Spec, C10 under FairSpec)      *)
(***************************************************************************)
MultiThreaded == call = "execute" /\ config_.numThreads > 1
SingleThreaded == call = "execute" /\ config_.numThreads <= 1
Returned == pc[Caller] = "done"
Emitted(name, status) == Printed(name, status) \in events \/ Callback(name, status) \in events
TerminalEmitted(name) ==
    Emitted(name, "UP-TO-DATE") \/ Emitted(name, "SUCCESS") \/ Emitted(name, "FAILED")
\* the target was taken up: marked in progress, entered, or its command started
Began(name) ==
    \/ MultiThreaded /\ name \in DOMAIN inProgress /\ (inProgress[name] \/ completed[name])
    \/ Emitted(name, "BUILDING")
    \/ Emitted(name, "BUILD")
    \/ name \in runnerCalls
\* the target is finished: completed[name] for the workers, processed by the loop otherwise
Finished(name) ==
    IF MultiThreaded THEN name \in DOMAIN completed /\ completed[name]
    ELSE TerminalEmitted(name)

\* C1: in an execution with any worker count, a target is not in progress and
\* its command is not started while one of its declared dependencies is not
\* yet completed.
C1_DependenciesCompletedFirst ==
    call = "execute" =>
        \A n \in DOMAIN targets_ : Began(n) =>
            \A d \in Range(getDependencies(targets_, n)) : Finished(d)

\* the diamond with two workers: D is in progress (B and C completed before)
C1_Witness ==
    /\ targets_ = Diamond
    /\ MultiThreaded
    /\ inProgress["D"]
    /\ "D" \in runnerCalls

\* C2 as stated: for every dependency edge t -> d, the SUCCESS or FAILED event
\* of d is emitted before the BUILDING event of t.
C2_SuccessOrFailedBeforeBuilding ==
    call = "execute" =>
        \A t \in DOMAIN targets_ : Emitted(t, "BUILDING") =>
            \A d \in Range(getDependencies(targets_, t)) :
                Emitted(d, "SUCCESS") \/ Emitted(d, "FAILED")

\* C2 amended: for every dependency edge t -> d, the terminal event of d
\* (UP-TO-DATE, SUCCESS or FAILED) is emitted before the BUILDING event of t.
C2_TerminalBeforeBuilding ==
    call = "execute" =>
        \A t \in DOMAIN targets_ : Emitted(t, "BUILDING") =>
            \A d \in Range(getDependencies(targets_, t)) : TerminalEmitted(d)

\* two workers: a target enters after one dependency was skipped and one failed
C2_Witness ==
    /\ MultiThreaded
    /\ \E t \in DOMAIN targets_ :
          /\ Emitted(t, "BUILDING")
          /\ \E d1, d2 \in Range(getDependencies(targets_, t)) :
                Emitted(d1, "UP-TO-DATE") /\ Emitted(d2, "FAILED")

\* C6: when the command of a target failed, the cache entry of the target is
\* what it was before the target was processed (both strategies, executeTarget).
C6_FailureLeavesCacheEntry ==
    \A n \in cmdFailed : cache[n] = cacheAtStart[n]

\* a failed target that had an older signature stored, after the call returned
C6_Witness ==
    /\ Returned
    /\ \E n \in cmdFailed : cacheAtStart[n] = StaleSignature(n) /\ Emitted(n, "FAILED")

\* C7: every cache entry the executor writes is written after the command
\* runner was invoked on the target's command and reported success (any J,
\* stop-on-error on or off, dry-run on or off).
C7_WriteOnlyAfterRunnerSuccess ==
    \A n \in written : n \in runnerCalls /\ n \notin cmdFailed

\* C8: with stop-on-error, once a command failed execute returns false, and
\* after the failure is recorded no target begins (single-threaded: the loop
\* enters no further target; multi-threaded: none is marked in progress).
C8_StopOnError ==
    /\ []((call = "execute" /\ config_.stopOnError /\ Returned /\ cmdFailed # {})
            => retval = FALSE)
    /\ [][(MultiThreaded /\ config_.stopOnError /\ failed)
            => \A n \in DOMAIN inProgress : inProgress'[n] => inProgress[n]]_vars
    /\ [][(SingleThreaded /\ config_.stopOnError /\ stats.failedTargets > 0)
            => (curIdx' = curIdx /\ events' = events)]_vars

\* two workers, stop-on-error: a command failed, execute returned false and a
\* target was never taken up
C8_Witness ==
    /\ MultiThreaded
    /\ config_.stopOnError
    /\ failed
    /\ Returned
    /\ retval = FALSE
    /\ \E n \in DOMAIN completed : ~Began(n)

\* C9: an execution that stops because the cancel flag is set returns false,
\* also when no command failed.
C9_CancelledReturnsFalse ==
    (call = "execute" /\ Returned /\ sawCancel /\ \E i \in 1..Len(order) : ~Finished(order[i]))
        => retval = FALSE

\* C10: with more than one worker, every worker returns and execute returns,
\* however the run ends (all targets completed, failure under stop-on-error,
\* cancel() at any moment).
C10_WorkersAndExecuteReturn ==
    MultiThreaded ~> (Returned /\ \A w \in Workers : pc[w] = "returned")

\* execute returned with every worker returned, after cancel() was called in
\* the middle of the run: a target completed, another one was never taken up
C10_Witness ==
    /\ MultiThreaded
    /\ Returned
    /\ \A w \in Workers : pc[w] = "returned"
    /\ cancelled_
    /\ \E n, m \in DOMAIN completed : completed[n] /\ ~Began(m)

TerminalStatuses == {"UP-TO-DATE", "SUCCESS", "FAILED"}
\* the targets whose processing reached the given status
WithStatus(status) == {n \in DOMAIN targets_ : Printed(n, status) \in events}
Processed == UNION {WithStatus(s) : s \in TerminalStatuses}

\* C16: with a progress callback registered and any worker count, every
\* processed target gets the callback with BUILDING on entering it and then
\* with exactly one of UP-TO-DATE, SUCCESS, FAILED.
C16_CallbackAtEveryPoint ==
    call = "execute" =>
        \A n \in Processed :
            /\ Callback(n, "BUILDING") \in events
            /\ Cardinality({s \in TerminalStatuses : Callback(n, s) \in events}) = 1

\* C17: when cancel() was not called, execute returns true iff no processed
\* target's command failed, i.e. iff failedTargets = 0 at return (any worker
\* count, stop-on-error on or off).
C17_ReturnsNoTargetFailed ==
    (call = "execute" /\ Returned /\ ~cancelled_)
        => /\ retval <=> (cmdFailed = {})
           /\ retval <=> (stats.failedTargets = 0)

\* two workers without stop-on-error: a command failed, another target was
\* built after it, execute returned false
C17_Witness ==
    /\ MultiThreaded
    /\ ~config_.stopOnError
    /\ ~cancelled_
    /\ Returned
    /\ retval = FALSE
    /\ \E n \in cmdFailed : \E m \in written : n \in Range(getDependencies(targets_, m))

\* C18: at every point of an execution each processed target is counted in
\* exactly one of builtTargets, skippedTargets, failedTargets, so their sum is
\* at most totalTargets; the sum is totalTargets at the return of an
\* execution that ran every target of the topological order.
C18_StatsPartition ==
    call = "execute" =>
        /\ stats.builtTargets = Cardinality(WithStatus("SUCCESS"))
        /\ stats.skippedTargets = Cardinality(WithStatus("UP-TO-DATE"))
        /\ stats.failedTargets = Cardinality(WithStatus("FAILED"))
        /\ \A s1, s2 \in TerminalStatuses : s1 # s2 => WithStatus(s1) \cap WithStatus(s2) = {}
        /\ stats.builtTargets + stats.skippedTargets + stats.failedTargets <= stats.totalTargets
        /\ (Returned /\ \A i \in 1..Len(order) : Finished(order[i]))
              => stats.builtTargets + stats.skippedTargets + stats.failedTargets
                    = stats.totalTargets

\* two workers ran the whole diamond: one target skipped, one failed, the others built
C18_Witness ==
    /\ MultiThreaded
    /\ targets_ = Diamond
    /\ Returned
    /\ stats.skippedTargets = 1
    /\ stats.failedTargets = 1
    /\ stats.builtTargets = 2
    /\ stats.totalTargets = 4

(***************************************************************************)
(* Claims about the Cache (checked under SpecStore)                        *)
(***************************************************************************)
\* names without '=' and line end, signatures without line end
Storable(c) ==
    \A k \in Entries(c) : EQ \notin Range(k) /\ LF \notin Range(k) /\ LF \notin Range(c[k])

\* C15 as stated: after any sequence of setSignature calls, save() followed by
\* load() on a new Cache over the same directory yields the saved mapping.
C15_SaveLoadRoundTrip ==
    (cacheOp = "load" /\ cacheRet.ret) => cache = cacheRet.saved

\* C15 amended: the loaded mapping equals the saved one when no stored name
\* contains '=' or a line end and no stored signature contains a line end.
C15_SaveLoadRoundTripStorable ==
    (cacheOp = "load" /\ cacheRet.ret /\ Storable(cacheRet.saved)) => cache = cacheRet.saved

\* two entries were saved and loaded, one with '=' in its signature, one with
\* the empty signature
C15_Witness ==
    /\ cacheOp = "load"
    /\ cacheRet.ret
    /\ Storable(cacheRet.saved)
    /\ cacheSize(cache) = 2
    /\ \E k1, k2 \in Entries(cache) : EQ \in Range(cache[k1]) /\ cache[k2] = <<>>

\* C19: needsRebuild(name, s) is true iff the cache has no entry for name or
\* the stored signature differs from s, i.e. iff findSignature(name) is not
\* an engaged optional equal to s (s may be the empty string).
C19_NeedsRebuildExact ==
    cacheOp = "needsRebuild" =>
        /\ cacheRet.ret <=> (cacheRet.name \notin Entries(cache)
                                \/ cache[cacheRet.name] # cacheRet.currentSignature)
        /\ cacheRet.ret <=> ~(cacheRet.found.engaged
                                /\ cacheRet.found.value = cacheRet.currentSignature)

\* no entry for the name and the empty signature asked about: rebuild needed
C19_Witness ==
    /\ cacheOp = "needsRebuild"
    /\ cacheRet.name \notin Entries(cache)
    /\ cacheSize(cache) > 0
    /\ cacheRet.currentSignature = <<>>
    /\ cacheRet.ret

(***************************************************************************)
(* Claims about the Cache under concurrent use (checked under SpecCache)   *)
(***************************************************************************)
Quiescent == \A t \in Clients : client[t].pc = "idle"

\* C14: under any interleaving of getSignature, findSignature, setSignature
\* and removeSignature calls, a read of a name returns absent/empty or a
\* signature that a setSignature call stored for that name; when all calls
\* have completed, size() is the number of names set and not removed since.
C14_ReadsAndSizeConsistent ==
    /\ \A t \in Clients : client[t].pc = "unlock" =>
          /\ client[t].call.op = "getSignature" =>
                \/ client[t].ret = <<>>
                \/ <<client[t].call.name, client[t].ret>> \in history.everSet
          /\ client[t].call.op = "findSignature" =>
                \/ ~client[t].ret.engaged
                \/ <<client[t].call.name, client[t].ret.value>> \in history.everSet
    /\ Quiescent =>
          /\ cacheSize(cache) = Cardinality({n \in ClientNames : history.applied[n] = "set"})
          /\ \A n \in Entries(cache) : <<n, cache[n]>> \in history.everSet

\* two threads wrote at the same time: one name set and then removed by the
\* other thread, the other name set, while a read returned a stored signature
C14_Witness ==
    /\ Quiescent
    /\ cacheSize(cache) = 1
    /\ \E n \in ClientNames : history.applied[n] = "remove"
    /\ \A t \in Clients : client[t].made = MaxOps
    /\ \E t \in Clients : client[t].call.op = "getSignature" /\ client[t].ret = <<"a">>

\* the thread is inside an operation: past its lock, not yet returned
Inside(t) == client[t].pc \notin {"idle", "lock"}
OpOf(t) == client[t].call.op
\* save() wrote the map it found when it began
SavedSnapshot ==
    \A t \in Clients : (client[t].pc = "unlock" /\ OpOf(t) = "save") =>
        client[t].ret.first = client[t].ret.last

\* C35 as stated: load, save, setSignature, removeSignature and clear exclude
\* each other and every reader; save() sees one state of the map.
C35_SaveExcludesReaders ==
    /\ \A t, u \in Clients : (t # u /\ Inside(t) /\ Inside(u)) =>
          {OpOf(t), OpOf(u)} \cap (WriteOps \cup {"save"}) = {}
    /\ SavedSnapshot

\* C35 amended: load, setSignature, removeSignature and clear exclude each
\* other, every reader and save(); save() and the readers hold the lock
\* shared, so they exclude only those four; save() sees one state of the map.
C35_WritersExcludeAll ==
    /\ \A t, u \in Clients : (t # u /\ Inside(t) /\ Inside(u)) =>
          {OpOf(t), OpOf(u)} \cap WriteOps = {}
    /\ \A t \in Clients :
          /\ (Inside(t) /\ OpOf(t) \in WriteOps) =>
                mutex_.exclusive = t /\ mutex_.shared = {}
          /\ (Inside(t) /\ OpOf(t) \in ReadOps) =>
                mutex_.exclusive = 0 /\ t \in mutex_.shared
    /\ SavedSnapshot

\* save() is between its first and its last entry while needsRebuild is
\* inside on another thread, after a setSignature took effect
C35_Witness ==
    /\ cacheSize(cache) > 0
    /\ \E t, u \in Clients :
          /\ OpOf(t) = "save" /\ client[t].pc = "write"
          /\ OpOf(u) = "needsRebuild" /\ client[u].pc = "unlock"

(***************************************************************************)
(* Claims about sorting a graph with a cycle (checked under SpecDag)       *)
(***************************************************************************)
\* C24: topologicalSort returns the empty sequence whenever the graph has a
\* dependency cycle (so for the single target X depending on X).
C24_CycleGivesEmptyOrder ==
    (dagOp = "topologicalSort" /\ HasDirectedCycle(targets_)) => dagRet = <<>>

\* the target lies on a directed cycle of declared edges
OnCycle(T, x) == x \in ReachIn(T, {x}, size(T))
\* the targets that neither lie on a cycle nor depend, directly or not, on one that does
AcyclicPortion(T) ==
    {x \in DOMAIN T : ~OnCycle(T, x) /\ \A y \in ReachIn(T, {x}, size(T)) : ~OnCycle(T, y)}
NoDuplicates(s) == \A i, j \in 1..Len(s) : s[i] = s[j] => i = j

\* C30: when the graph has a cycle, topologicalSort returns a sequence
\* without duplicates holding exactly the targets that neither lie on a cycle
\* nor transitively depend on a target on a cycle, dependencies first; it is
\* strictly shorter than size().
C30_CycleGivesAcyclicPortion ==
    (dagOp = "topologicalSort" /\ HasDirectedCycle(targets_)) =>
        /\ NoDuplicates(dagRet)
        /\ Range(dagRet) = AcyclicPortion(targets_)
        /\ DependenciesFirst(targets_, dagRet)
        /\ Len(dagRet) < size(targets_)

(***************************************************************************)
(* Claims about the target signature (checked under SpecSig)               *)
(***************************************************************************)
\* file(p): the hash of the contents, the empty string for a file that cannot be opened
FileHash(f) == IF f.exists THEN sha256(f.bytes) ELSE <<>>
\* "|" + file(inputs[i]) + "|" + file(inputs[i+1]) + ... to the end of the list
RECURSIVE JoinedFrom(_, _)
JoinedFrom(contents, i) ==
    IF i > Len(contents) THEN <<>>
    ELSE <<"|">> \o FileHash(contents[i]) \o JoinedFrom(contents, i + 1)
\* cmd + "|" + file(inputs[0]) + "|" + file(inputs[1]) + ...
Joined(command, contents) == command \o JoinedFrom(contents, 1)
\* the value claimed for every command and list of file states, worked out once
ClaimedSignatures ==
    {<<a[1], a[2], sha256(Bytes(Joined(a[1], a[2])))>> :
        a \in Commands \X SeqsUpTo(InputFiles, MaxInputs)}

\* C25: computeTargetSignature(cmd, inputs) is the hash of cmd + "|" +
\* file(inputs[0]) + "|" + file(inputs[1]) + ... with the inputs in the given
\* order, file(p) being the hash of the contents and empty for a file that
\* cannot be opened; it never fails, the result is not empty, and the same
\* command over the same contents gives the same result at every call.
C25_TargetSignatureIsHashOfJoin ==
    \A i \in 1..Len(sigRet) :
        /\ <<sigRet[i].command, sigRet[i].contents, sigRet[i].ret>> \in ClaimedSignatures
        /\ Len(sigRet[i].ret) = 64
        /\ \A j \in 1..Len(sigRet) :
              (sigRet[j].command = sigRet[i].command /\ sigRet[j].contents = sigRet[i].contents)
                  => sigRet[j].ret = sigRet[i].ret

\* two calls with the same command over the same two inputs, one of which
\* cannot be opened: the same signature
C25_Witness ==
    /\ Len(sigRet) = 2
    /\ sigOp = "computeTargetSignature"
    /\ sigRet[1].command = sigRet[2].command
    /\ Len(sigRet[1].contents) = 2
    /\ sigRet[1].contents = sigRet[2].contents
    /\ MissingFile \in Range(sigRet[1].contents)
    /\ sigRet[1].contents[1] # sigRet[1].contents[2]
    /\ sigRet[1].ret = sigRet[2].ret

\* the second call differs from the first in the command only
CommandChanged(a, b) == a.command # b.command /\ a.contents = b.contents
\* the same command and paths; the files are there at both calls and the
\* contents of at least one of them differ
InputBytesChanged(a, b) ==
    /\ a.command = b.command
    /\ a.inputs = b.inputs
    /\ \A i \in 1..Len(a.contents) : a.contents[i].exists /\ b.contents[i].exists
    /\ a.contents # b.contents
\* the same command over the same two files of different contents, in the other order
InputsReordered(a, b) ==
    /\ a.command = b.command
    /\ Len(a.contents) = 2
    /\ b.contents = <<a.contents[2], a.contents[1]>>
    /\ a.contents[1] # a.contents[2]

\* C26: changing the command, changing a byte of an input file's contents, or
\* reordering the inputs gives a target signature different from the first.
C26_AnyChangeChangesSignature ==
    \A i, j \in 1..Len(sigRet) :
        (CommandChanged(sigRet[i], sigRet[j])
         \/ InputBytesChanged(sigRet[i], sigRet[j])
         \/ InputsReordered(sigRet[i], sigRet[j]))
            => sigRet[i].ret # sigRet[j].ret

(***************************************************************************)
(* Further claims about the executor (checked under Spec)                  *)
(***************************************************************************)
\* the terminal statuses printed for a target
StatusesOf(name) == {s \in TerminalStatuses : Printed(name, s) \in events}
\* the targets entered so far: loop index, or the workers' processedCount
Entered == IF MultiThreaded THEN processedCount ELSE curIdx

\* C22: without stop-on-error and without cancellation, for any worker count,
\* every target of the topological order is processed exactly once, and a
\* target whose dependency's command failed is processed all the same.
C22_AllProcessedDespiteFailures ==
    (call = "execute" /\ Returned /\ ~config_.stopOnError /\ ~cancelled_) =>
        /\ \A i \in 1..Len(order) : Cardinality(StatusesOf(order[i])) = 1
        /\ Entered = Len(order)
        /\ stats.builtTargets + stats.skippedTargets + stats.failedTargets = Len(order)
        /\ cmdFailed \subseteq WithStatus("FAILED")

\* two workers: the command of a dependency failed and its dependent was
\* processed after it
C22_Witness ==
    /\ MultiThreaded
    /\ Returned
    /\ ~config_.stopOnError
    /\ ~cancelled_
    /\ \E n \in Processed :
          \E d \in Range(getDependencies(targets_, n)) : d \in cmdFailed

\* C23: in dry-run mode, for any graph and worker count, the command runner
\* is never invoked for any target, and execute returns true when cancel()
\* was not called.
C23_DryRunInvokesNothing ==
    config_.dryRun =>
        /\ runnerCalls = {}
        /\ cmdFailed = {}
        /\ \A th \in Threads : pc[th] \notin {"st_running", "running", "et_running"}
        /\ (call = "execute" /\ Returned /\ ~cancelled_) => retval

\* a dry run with two workers returned true, three targets counted as built
C23_Witness ==
    /\ config_.dryRun
    /\ MultiThreaded
    /\ Returned
    /\ retval
    /\ ~cancelled_
    /\ stats.builtTargets = 3
    /\ runnerCalls = {}

\* the worker has taken a target and has not yet recorded its completion
Holding(w) ==
    pc[w] \in {"picked", "check", "running", "success", "failure", "finish_ok", "finish_failed"}
Holders(name) == {w \in Workers : Holding(w) /\ targetName[w] = name}

\* C27: in a multi-threaded execution, under every interleaving: a target is
\* marked in progress at most once, no target is in progress on two workers
\* at a time, none is both in progress and completed, a completed target
\* stays completed and never is in progress again, and the failed latch once
\* set stays set.
C27_ProgressBookkeeping ==
    [][MultiThreaded =>
          /\ \A n \in DOMAIN inProgress :
                /\ Cardinality(Holders(n)) <= 1
                /\ inProgress[n] <=> Holders(n) # {}
                /\ ~(inProgress[n] /\ completed[n])
                /\ (inProgress'[n] /\ ~inProgress[n]) =>
                      /\ ~completed[n]
                      /\ Callback(n, "BUILDING") \notin events
                      /\ \A s \in TerminalStatuses \cup {"BUILD"} : Printed(n, s) \notin events
                /\ completed[n] => (completed'[n] /\ ~inProgress'[n])
          /\ failed => failed']_vars

\* two workers hold different targets while a third target is completed and
\* the failed latch is set
C27_Witness ==
    /\ MultiThreaded
    /\ failed
    /\ \E n \in DOMAIN completed : completed[n]
    /\ \E w1, w2 \in Workers :
          /\ Holding(w1) /\ Holding(w2)
          /\ targetName[w1] # targetName[w2]
          /\ inProgress[targetName[w1]] /\ inProgress[targetName[w2]]

\* the targets a thread has taken and not yet finished with
TakenTargets ==
    IF MultiThreaded
    THEN {n \in DOMAIN inProgress : inProgress[n]}
    ELSE IF pc[Caller] \in {"st_check", "st_running", "st_success", "st_failure"}
         THEN {targetName[Caller]}
         ELSE {}

\* the threads whose command is in flight
InFlight == {th \in Threads : pc[th] \in {"running", "st_running"}}

\* C28 as stated: once the cancel flag has been set during an execution, no
\* command that had not already been started is started afterwards.
C28_NoCommandStartsAfterCancel ==
    [][(call = "execute" /\ cancelled_) => runnerCalls' = runnerCalls]_vars

\* C28 amended: once the cancel flag has been set during an execution, no
\* further target is picked up (no worker marks a target in progress, the
\* single-threaded loop enters no target); a command in flight is left to
\* return; the only commands started afterwards belong to targets that a
\* thread had taken before the flag was set and whose command it had not
\* yet started.
C28_NoTargetTakenAfterCancel ==
    [][(call = "execute" /\ cancelled_) =>
          /\ TakenTargets' \subseteq TakenTargets
          /\ curIdx' = curIdx
          /\ processedCount' # processedCount =>
                \E w \in Workers : pc[w] = "picked" /\ inProgress[targetName[w]]
          /\ runnerCalls' \ runnerCalls \subseteq TakenTargets
          /\ \A th \in InFlight :
                \/ pc'[th] = pc[th]
                \/ pc[th] = "running" /\ pc'[th] \in {"success", "failure"}
                \/ pc[th] = "st_running" /\ pc'[th] \in {"st_success", "st_failure"}]_vars

\* the flag is set, one worker has returned on seeing it, the command of
\* another is in flight, and a target of the order was never taken
C28_Witness ==
    /\ MultiThreaded
    /\ cancelled_
    /\ sawCancel
    /\ \E w1, w2 \in Workers :
          /\ pc[w1] = "returned"
          /\ pc[w2] = "running"
          /\ targetName[w2] \in runnerCalls
    /\ \E n \in DOMAIN inProgress :
          ~inProgress[n] /\ ~completed[n] /\ Callback(n, "BUILDING") \notin events

\* C29: whenever execute returns true without cancellation, every target
\* registered in the graph was built successfully or skipped as up to date in
\* that execution, and stats.totalTargets equals the size of the graph.
C29_TrueMeansAllBuiltOrSkipped ==
    (call = "execute" /\ Returned /\ retval /\ ~cancelled_) =>
        /\ \A n \in DOMAIN targets_ :
              n \in WithStatus("SUCCESS") \cup WithStatus("UP-TO-DATE")
        /\ stats.totalTargets = size(targets_)

\* the step that skips `name` as up to date
Skips(name) ==
    Printed(name, "UP-TO-DATE") \notin events /\ Printed(name, "UP-TO-DATE") \in events'

\* C31: when a target is skipped as up to date the executor writes nothing to
\* the cache (the entry of that target and of every other target is what it
\* was), the target's entry is the one found when its processing began and
\* stays so, and the command runner is not invoked for it (both strategies,
\* executeTarget).
C31_SkipWritesNothing ==
    [][\A n \in DOMAIN targets_ :
          /\ Skips(n) =>
                /\ cache' = cache
                /\ written' = written
                /\ runnerCalls' = runnerCalls
                /\ cache[n] = cacheAtStart[n]
          /\ Printed(n, "UP-TO-DATE") \in events' =>
                /\ n \notin runnerCalls'
                /\ n \notin written'
                /\ cache'[n] = cacheAtStart'[n]]_vars

\* a multi-threaded execution has returned in which one target was skipped
\* with its stored signature and another was built and its signature written
C31_Witness ==
    /\ MultiThreaded
    /\ Returned
    /\ \E n, m \in DOMAIN targets_ :
          /\ n # m
          /\ Printed(n, "UP-TO-DATE") \in events
          /\ cache[n] # NoEntry
          /\ Printed(m, "SUCCESS") \in events
          /\ m \in written
          /\ m \in runnerCalls

\* the statuses printed for `name` by the step
NewStatuses(name) ==
    {s \in TerminalStatuses \cup {"BUILD"} :
        Printed(name, s) \notin events /\ Printed(name, s) \in events'}

\* C32: the status events of a target come in order: a single UP-TO-DATE, or
\* a BUILD followed by exactly one of SUCCESS and FAILED; a terminal status is
\* emitted at most once per target (the counters of execute, raised at every
\* emission, count each target once) and never before the target's BUILD; no
\* event is withdrawn; once the call has returned every BUILD has its SUCCESS
\* or FAILED.
C32_StatusEventsInOrder ==
    [][/\ events \subseteq events'
       /\ \A n \in DOMAIN targets_ :
             /\ Cardinality(NewStatuses(n)) <= 1
             /\ "BUILD" \in NewStatuses(n) => StatusesOf(n) = {}
             /\ "UP-TO-DATE" \in NewStatuses(n) =>
                   StatusesOf(n) = {} /\ Printed(n, "BUILD") \notin events
             /\ NewStatuses(n) \cap {"SUCCESS", "FAILED"} # {} =>
                   StatusesOf(n) = {} /\ Printed(n, "BUILD") \in events
             /\ Cardinality(StatusesOf(n)') <= 1
             /\ Printed(n, "UP-TO-DATE") \in events' => Printed(n, "BUILD") \notin events'
             /\ (Returned' /\ Printed(n, "BUILD") \in events') =>
                   StatusesOf(n)' \in {{"SUCCESS"}, {"FAILED"}}
       /\ (call = "execute")' =>
             /\ stats'.builtTargets = Cardinality(WithStatus("SUCCESS")')
             /\ stats'.skippedTargets = Cardinality(WithStatus("UP-TO-DATE")')
             /\ stats'.failedTargets = Cardinality(WithStatus("FAILED")')]_vars

\* the events of two targets interleave: both have their BUILD and neither its
\* terminal status, while a third target has BUILD and FAILED
C32_Witness ==
    /\ MultiThreaded
    /\ \E n, m, k \in DOMAIN targets_ :
          /\ n # m
          /\ Printed(n, "BUILD") \in events /\ StatusesOf(n) = {}
          /\ Printed(m, "BUILD") \in events /\ StatusesOf(m) = {}
          /\ Printed(k, "BUILD") \in events /\ StatusesOf(k) = {"FAILED"}

(***************************************************************************)
(* Claims about the two strategies side by side (checked under SpecBoth)   *)
(***************************************************************************)
\* the multi-threaded execution has returned, cancel() reached neither
BothReturned ==
    /\ runs.count = 2
    /\ "single" \in DOMAIN runs
    /\ call = "execute"
    /\ Returned
    /\ ~cancelled_
\* the runner gave every command it was handed in both executions the same verdict
SameVerdicts ==
    \A n \in runs.single.runnerCalls \cap runnerCalls :
        n \in runs.single.cmdFailed <=> n \in cmdFailed
\* the targets that ended with `status` in the single-threaded execution
SingleWithStatus(status) == {n \in DOMAIN targets_ : Printed(n, status) \in runs.single.statuses}

\* C36: with stop-on-error off and no cancellation, the execution with J > 1
\* ends, under every interleaving, with the same built, skipped and failed
\* targets, the same cache and the same return value as the execution with
\* J = 1 from the same cache and files, the runner's verdicts being the same.
C36_SameOutcomeAsSingleThreaded ==
    (BothReturned /\ SameVerdicts) =>
        /\ \A s \in TerminalStatuses : WithStatus(s) = SingleWithStatus(s)
        /\ cache = runs.single.cache
        /\ retval = runs.single.retval
        /\ runnerCalls = runs.single.runnerCalls

\* both executions built a target and wrote its signature, failed on another
\* and returned false
C36_Witness ==
    /\ BothReturned
    /\ SameVerdicts
    /\ ~retval
    /\ WithStatus("SUCCESS") # {}
    /\ WithStatus("FAILED") # {}
    /\ written # {}
    /\ cache # runs.cache

(***************************************************************************)
(* Claims about executions in succession (checked under SpecRuns)          *)
(***************************************************************************)
\* an earlier execute(), not cancelled, whose commands all ran, succeeded and
\* left their outputs
CleanEarlierRun ==
    /\ runs.count = 2
    /\ runs.earlier[1].call = "execute"
    /\ runs.earlier[1].cmdFailed = {}
    /\ ~runs.earlier[1].cancelled
    /\ \A n \in DOMAIN targets_ : runs.earlier[1].outputs[n]
\* nothing was touched since the earlier execution
Untouched == runs.modified = {} /\ runs.removed = {}

\* C11: a DAG of N targets whose commands all succeed and create the outputs,
\* executed twice in succession on the same cache (saved and reloaded in
\* between or not), inputs unchanged and outputs present between the runs:
\* the first execution, on an empty cache, reports built = N; the second
\* reports skipped = N, built = 0 and invokes no command (cancel() not called).
C11_BuiltThenSkipped ==
    (call = "execute" /\ Returned /\ ~config_.dryRun /\ cmdFailed = {} /\ ~cancelled_) =>
        /\ runs.count = 1 => stats.builtTargets = size(targets_)
        /\ (CleanEarlierRun /\ Untouched) =>
              /\ stats.skippedTargets = size(targets_)
              /\ stats.builtTargets = 0
              /\ runnerCalls = {}

\* a thread decides on its target (skip or build) while the declared output is not there
DecidesWithoutOutput(th) ==
    /\ files.observed
    /\ pc[th] \in {"st_check", "check", "et_check"}
    /\ pc'[th] # pc[th]
    /\ ~files.outputs[targetName[th]]

\* C12 as stated: a target processed while a declared output does not exist
\* has its command run, whatever the cache holds for it.
C12_MissingOutputRunsCommand ==
    [][\A th \in Threads :
          DecidesWithoutOutput(th) => targetName[th] \in runnerCalls']_vars

\* C12: a target processed while a declared output does not exist is not
\* skipped, whatever the cache holds for it: BUILD is reported, not
\* UP-TO-DATE, and unless the configuration is a dry run its command is run.
C12_MissingOutputForcesBuild ==
    [][\A th \in Threads :
          DecidesWithoutOutput(th) =>
              /\ Printed(targetName[th], "BUILD") \in events'
              /\ Printed(targetName[th], "UP-TO-DATE") \notin events'
              /\ stats'.skippedTargets = stats.skippedTargets
              /\ ~config_.dryRun => targetName[th] \in runnerCalls']_vars

\* the output of a target built before was removed, the cache held the
\* signature of its unchanged input, and a worker ran its command again
C12_Witness ==
    /\ runs.count = 2
    /\ config_.numThreads = 2
    /\ \E n \in runs.removed :
          /\ n \in runs.earlier[1].written
          /\ runs.modified = {}
          /\ cacheAtStart[n] = TargetSignature(n)
          /\ n \in runnerCalls

\* a thread decides on a target that the earlier execution built with success
\* and whose declared input has other contents now
DecidesOnChangedInput(th) ==
    /\ files.observed
    /\ runs.count = 2
    /\ ~config_.dryRun
    /\ pc[th] \in {"st_check", "check", "et_check"}
    /\ pc'[th] # pc[th]
    /\ targetName[th] \in runs.earlier[1].written
    /\ files.inputs[targetName[th]] # runs.earlier[1].inputs[targetName[th]]

\* C13: when the contents of a declared input differ from the contents at the
\* target's last successful build, the next execution runs the target's
\* command and does not skip it, whether its outputs exist or not.
C13_ChangedInputRunsCommand ==
    [][\A th \in Threads :
          DecidesOnChangedInput(th) =>
              /\ targetName[th] \in runnerCalls'
              /\ Printed(targetName[th], "UP-TO-DATE") \notin events']_vars

(***************************************************************************)
(* Claims about inputs rewritten or missing (checked under SpecLive)       *)
(***************************************************************************)
\* the state the declared input of `name` had when its command was started
\* in the execution under way
InputAtStart(name) ==
    IF runs.edited # <<>> /\ runs.edited[1].target = name
    THEN runs.edited[1].before
    ELSE files.inputs[name]
\* a thread decides on a target of which `P` holds in the earlier execution
\* and whose input and outputs nobody touched since
DecidesAgain(th, P(_)) ==
    /\ files.observed
    /\ "edited" \in DOMAIN runs
    /\ runs.count = 2
    /\ runs.edited = <<>>
    /\ ~config_.dryRun
    /\ pc[th] \in {"st_check", "check", "et_check"}
    /\ pc'[th] # pc[th]
    /\ targetName[th] \in runs.earlier[1].written
    /\ P(targetName[th])
\* the input of `name` was rewritten while its command ran in the earlier execution
EditedEarlier(name) ==
    /\ runs.earlier[1].edited # <<>>
    /\ runs.earlier[1].edited[1].target = name
    /\ runs.earlier[1].edited[1].before # runs.earlier[1].inputs[name]

\* C37: the signature stored after a successful command is the one of the
\* command and of the input as it was when the command was started; so when
\* the input was rewritten while the command ran, the next execution runs the
\* command again.
C37_StoredSignatureIsOfStart ==
    [][/\ \A n \in DOMAIN targets_ :
             (files.observed /\ "edited" \in DOMAIN runs /\ ~config_.dryRun
                /\ n \in written' /\ n \notin written) =>
                 cache'[n] = SignatureOf[InputAtStart(n)]
       /\ \A th \in Threads :
             DecidesAgain(th, EditedEarlier) =>
                 /\ targetName[th] \in runnerCalls'
                 /\ Printed(targetName[th], "UP-TO-DATE") \notin events']_vars

\* the input of `name` could not be read when the signature of `name` was
\* computed and stored in the earlier execution
UnreadableEarlier(name) == ~runs.earlier[1].inputs[name].exists

\* C38: when the declared input of a target cannot be read while the target's
\* signature is computed and stored after a successful build, a signature is
\* stored all the same, with the empty text for the input's file signature,
\* and the next execution runs the target's command again.
C38_UnreadableInputRebuildsNextTime ==
    [][/\ \A n \in DOMAIN targets_ :
             (files.observed /\ "edited" \in DOMAIN runs
                /\ n \in written' /\ n \notin written /\ ~files.inputs[n].exists) =>
                 /\ Len(cache'[n]) = 64
                 /\ cache'[n] = sha256(Bytes(Command \o <<"|">>))
       /\ \A th \in Threads :
             DecidesAgain(th, UnreadableEarlier) =>
                 /\ targetName[th] \in runnerCalls'
                 /\ Printed(targetName[th], "UP-TO-DATE") \notin events']_vars

(***************************************************************************)
(* Claims about loading the cache file (checked under SpecStore)           *)
(***************************************************************************)
\* getSignature is empty and needsRebuild is true for every name
LikeEmptyCache(c) ==
    \A name \in Texts :
        /\ getSignature(c, name) = <<>>
        /\ \A currentSignature \in QueryTexts : needsRebuild(c, name, currentSignature)

\* C21 as stated: load() without a cache file that can be opened leaves the
\* Cache like an empty one, whatever entries were in memory before the call.
C21_FailedLoadLeavesEmpty ==
    (cacheOp = "loadInPlace" /\ ~cacheRet.ret) => LikeEmptyCache(cache)

\* C21: load() without a cache file that can be opened returns false and
\* leaves the entries in memory as they were; on a Cache without entries (a
\* new one) getSignature is then empty and needsRebuild true for every name.
C21_FailedLoadKeepsEntries ==
    /\ (cacheOp = "loadInPlace" /\ ~cacheRet.ret) =>
          /\ cacheFile = NoFile
          /\ cache = cacheRet.before
          /\ cacheRet.before = EmptyStore => LikeEmptyCache(cache)
    /\ (cacheOp = "load" /\ ~cacheRet.ret) => LikeEmptyCache(cache)

\* load() failed on a Cache holding two entries
C21_Witness ==
    /\ cacheOp = "loadInPlace"
    /\ ~cacheRet.ret
    /\ cacheSize(cacheRet.before) = 2

\* the positions of the file at which a line starts
LineStarts(text) == {s \in 1..Len(text) : s = 1 \/ text[s - 1] = LF}
\* the line starting at s, without its line end
LineAt(text, s) ==
    SubSeq(text, s, CHOOSE e \in (s - 1)..Len(text) :
                        /\ \A i \in s..e : text[i] # LF
                        /\ e = Len(text) \/ text[e + 1] = LF)
\* the text before the first '=' of the line and the text after it
KeyOf(line) == SubSeq(line, 1, (CHOOSE i \in 1..Len(line) :
                                   line[i] = EQ /\ \A j \in 1..(i - 1) : line[j] # EQ) - 1)
ValueOf(line) == SubSeq(line, Len(KeyOf(line)) + 2, Len(line))
\* the starts of the lines that hold an entry for `key`
LinesOf(text, key) ==
    {s \in LineStarts(text) : EQ \in Range(LineAt(text, s)) /\ KeyOf(LineAt(text, s)) = key}
Last(S) == CHOOSE s \in S : \A t \in S : t <= s
\* the entries the file holds: per key the value of the last line with that key
ParsedFrom(text) ==
    [key \in Texts |->
        IF LinesOf(text, key) = {} THEN NoEntry
        ELSE ValueOf(LineAt(text, Last(LinesOf(text, key))))]
\* every line with '=' has its key among the names of the model
KeysCovered(text) ==
    \A s \in LineStarts(text) :
        EQ \in Range(LineAt(text, s)) => KeyOf(LineAt(text, s)) \in Texts

\* C34: after a load() that opened the cache file the map holds exactly the
\* entries parsed from the file: what it held before is gone, a line with
\* '=' gives the key before the first '=' and the value after it, a line
\* without '=' gives nothing, and of several lines with one key the last wins.
C34_LoadReplacesWithParsed ==
    (cacheOp \in {"load", "loadInPlace"} /\ cacheRet.ret) =>
        /\ cacheFile # NoFile
        /\ KeysCovered(cacheFile)
        /\ cache = ParsedFrom(cacheFile)

\* the file that was loaded has a line without '=' and two lines with one
\* key, and an entry held before the call is gone
C34_Witness ==
    /\ cacheOp = "loadInPlace"
    /\ cacheRet.ret
    /\ Entries(cacheRet.before) \ Entries(cache) # {}
    /\ \E s \in LineStarts(cacheFile) : EQ \notin Range(LineAt(cacheFile, s))
    /\ \E key \in Entries(cache) : Cardinality(LinesOf(cacheFile, key)) = 2

(***************************************************************************)
(* Claims about building the graph (checked under SpecAdd)                 *)
(***************************************************************************)
\* C20: addTarget inserts the target and returns true when its name is not
\* registered; when the name is registered it returns false and the DAG is as
\* before (its size and the stored target with command, inputs, outputs and
\* dependencies).
C20_AddTargetInsertsOrLeaves ==
    (dagOp = "addTarget" /\ ~dagRet.null) =>
        IF dagRet.target.name \notin DOMAIN dagRet.before
        THEN /\ dagRet.ret
             /\ size(targets_) = size(dagRet.before) + 1
             /\ targets_[dagRet.target.name] = dagRet.target
             /\ \A n \in DOMAIN dagRet.before : targets_[n] = dagRet.before[n]
        ELSE /\ ~dagRet.ret
             /\ size(targets_) = size(dagRet.before)
             /\ targets_ = dagRet.before

\* a target with another command, other outputs and other dependencies was
\* handed in under a registered name
C20_Witness ==
    /\ dagOp = "addTarget"
    /\ ~dagRet.null
    /\ ~dagRet.ret
    /\ size(targets_) = 2
    /\ targets_[dagRet.target.name].command # dagRet.target.command
    /\ targets_[dagRet.target.name].outputs # dagRet.target.outputs
    /\ targets_[dagRet.target.name].dependencies # dagRet.target.dependencies

(***************************************************************************)
(* Claims about the keys of the graph (checked under SpecAdd)              *)
(***************************************************************************)
\* C33: after any sequence of addTarget (its three overloads), removeTarget,
\* clear and changes made to a stored target through a pointer (setName
\* included), every key of the DAG equals the name of the target stored
\* under it.
C33_KeysEqualNames ==
    \A k \in DOMAIN targets_ : targets_[k].name = k

====
